---- MODULE Spec2Model ----
(***************************************************************************)
(* State machine of the ScholarshipHub contract (Solidity ^0.8.20).        *)
(* One action per external function; a call that reverts leaves the        *)
(* ledger as it was and only records its revert reason in `receipt`.       *)
(***************************************************************************)
EXTENDS Integers, Sequences, FiniteSets, TLC

\* ---------------------------------------------------------------- bounds
MaxHandles == 3      \* externally owned / contract addresses 1..MaxHandles
MaxId == 3           \* university ids 1..MaxId (0 is the unset id)
MaxPools == 2        \* scholarships that may be created
MaxValue == 3        \* largest msg.value and largest withdrawal request
MaxCapacity == 2     \* largest _beneficiaryCount
MaxHist == 3         \* verification records stored, over all addresses
BlockTimestamp == 1  \* block.timestamp: the explored calls are mined in one block
MaxFunds == 4        \* receive() is explored while totalFunds stays within it
MaxDepth == 1        \* share transfers that may be in flight at once
MaxLog == 4          \* events followed in the chain's log of the contract
MaxGrant == 2        \* largest value sent to fundStudent
MaxClicks == 4       \* role selections followed on the dashboard
MaxDemoLog == 3      \* entries followed in the log of ScholarshipDemo
MaxPending == 1      \* writeContract calls that may be awaited at once

ZeroAddress == 0
Handles == 1..MaxHandles
Addresses == {ZeroAddress} \cup Handles
Ids == 0..MaxId
PoolIds == 0..(MaxPools - 1)
Values == 0..MaxValue
Capacities == 0..MaxCapacity
Hashes == {"", "QmHash"}
Titles == {"", "Merit"}
Reasons == {"GPA: 3.8"}
Deployer == CHOOSE h \in Handles : TRUE

\* ---------------------------------------------------------- revert reasons
Ok == "ok"
Unauthorized == "Only owner can call this function"
UnauthorizedOracle == "Only oracle can call this function"
PoolNotFound == "Scholarship does not exist"
NotEligible == "Student is not verified as eligible"
InvalidOracle == "Invalid oracle address"
InvalidInput == "Invalid student ID"
DuplicateIdentity == "Student ID already registered"
DuplicateHandle == "Wallet already registered"
EmptyHash == "Application hash cannot be empty"
InvalidStudentAddress == "Invalid student address"
IdentityMismatch == "Student ID mismatch"
NoDeposit == "Must deposit funds"
InvalidCapacity == "Beneficiary count must be greater than 0"
EmptyTitle == "Title cannot be empty"
ShareTooSmall == "Insufficient funds for beneficiary count"
AlreadyClaimed == "Student has already claimed scholarship"
CapacityExhausted == "All funds have been distributed"
InsufficientFunds == "Insufficient scholarship funds"
TransferFailed == "Transfer failed"
InFlight == "transfer in flight"
ArithmeticPanic == "Panic(0x11)"
InvalidSponsor == "Invalid sponsor address"
SponsorNotVerified == "Sponsor is not verified"
InvalidAmount == "Amount must be greater than 0"
AlreadyVerified == "Student already verified"
StudentNotVerified == "Student is not verified"
NotAssignedSponsor == "Only the assigned sponsor can fund this student"
AlreadyFunded == "Student already funded"
WrongAmount == "Must send the exact scholarship amount"
NotFunded == "Scholarship has not been funded"
InsufficientBalance == "Insufficient balance"
WithdrawalFailed == "Withdrawal failed"

\* ------------------------------------------------------------------ state
VARIABLES
    owner,                \* address public owner
    oracleAddress,        \* address public oracleAddress
    scholarshipCounter,   \* uint256 public scholarshipCounter
    totalFunds,           \* uint256 public totalFunds
    students,             \* mapping(address => Student)
    studentIdToWallet,    \* mapping(uint256 => address)
    scholarships,         \* mapping(uint256 => Scholarship)
    verificationHistory,  \* mapping(address => VerificationRecord[])
    claimedAmounts,       \* mapping(address => uint256)
    balance,              \* address(this).balance
    paid,                 \* paid[h][p]: share transfers of pool p sent to h
    withdrawn,            \* sum of the amounts sent to the owner by withdrawals
    receipt,              \* outcome of the latest call
    stack,                \* claimScholarship calls waiting in the call of line 709
    log,                  \* events emitted by the transactions so far, in order
    manager,              \* state of the ScholarshipManager contract
    activeRole,           \* Index: useState("public")
    selections,           \* Index: the roles selected so far, in order
    demo                  \* ScholarshipDemo: its useState values and writes

ledger == <<owner, oracleAddress, scholarshipCounter, totalFunds, students,
            studentIdToWallet, scholarships, verificationHistory,
            claimedAmounts, balance, paid, withdrawn>>

vars == <<owner, oracleAddress, scholarshipCounter, totalFunds, students,
          studentIdToWallet, scholarships, verificationHistory,
          claimedAmounts, balance, paid, withdrawn, receipt, stack, log,
          manager, activeRole, selections, demo>>

\* The state of the web pages, and the state of the contracts.
pages == <<activeRole, selections, demo>>
chain == <<ledger, receipt, stack, log, manager>>

NoStudent ==
    [studentId |-> 0, walletAddress |-> ZeroAddress, applicationHash |-> "",
     isEligible |-> FALSE, hasClaimedScholarship |-> FALSE,
     verificationTimestamp |-> 0]

NoScholarship ==
    [id |-> 0, title |-> "", totalAmount |-> 0, remainingAmount |-> 0,
     claimAmount |-> 0, beneficiaryCount |-> 0, claimsProcessed |-> 0,
     creator |-> ZeroAddress, createdAt |-> 0, active |-> FALSE]

ReceiptNoEvents(op, sender, arg, err, events) ==
    [op |-> op, sender |-> sender, arg |-> arg, err |-> err, events |-> <<>>]

Receipt(op, sender, arg, err, events) ==
    [op |-> op, sender |-> sender, arg |-> arg, err |-> err, events |-> events]

\* ScholarshipDemo before the page is opened; `last` is the outcome of the
\* latest handler and `pending` the writeContract calls not yet settled.
NoDemo ==
    [mounted |-> FALSE, walletClient |-> FALSE, walletAddress |-> "",
     contractAddress |-> "", sponsorAddress |-> "", studentAddress |-> "",
     amountEth |-> "0.1", gpaScaled |-> "350", logs |-> <<>>,
     pending |-> <<>>,
     last |-> [handler |-> "", outcome |-> ""]]

\* A student of ScholarshipManager before verifyStudent.
NoGrantee ==
    [isVerified |-> FALSE, assignedSponsor |-> ZeroAddress,
     scholarshipAmount |-> 0, gpa |-> 0, balance |-> 0,
     hasClaimedScholarship |-> FALSE]

Init ==
    /\ owner = Deployer
    /\ oracleAddress = Deployer
    /\ scholarshipCounter = 0
    /\ totalFunds = 0
    /\ students = [h \in Handles |-> NoStudent]
    /\ studentIdToWallet = [i \in Ids |-> ZeroAddress]
    /\ scholarships = [p \in PoolIds |-> NoScholarship]
    /\ verificationHistory = [h \in Handles |-> <<>>]
    /\ claimedAmounts = [h \in Handles |-> 0]
    /\ balance = 0
    /\ paid = [h \in Handles |-> [p \in PoolIds |-> 0]]
    /\ withdrawn = 0
    /\ receipt = Receipt("constructor", Deployer, 0, Ok, <<>>)
    /\ stack = <<>>
    /\ log = <<>>
    /\ manager = [admin |-> Deployer, verifiedSponsors |-> {},
                  students |-> [h \in Handles |-> NoGrantee],
                  balance |-> 0, paid |-> [h \in Handles |-> 0]]
    /\ activeRole = "public"
    /\ selections = <<>>
    /\ demo = NoDemo

\* ------------------------------------------------------- setOracleAddress
setOracleError(sender, newOracle) ==
    IF sender # owner THEN Unauthorized
    ELSE IF newOracle = ZeroAddress THEN InvalidOracle
    ELSE Ok

SetOracleAddress(sender, newOracle) ==
    LET err == setOracleError(sender, newOracle) IN
    /\ IF err = Ok
       THEN /\ oracleAddress' = newOracle
            /\ receipt' = Receipt("setOracleAddress", sender, newOracle, Ok,
                                  <<"OracleAddressUpdated">>)
       ELSE /\ oracleAddress' = oracleAddress
            /\ receipt' = Receipt("setOracleAddress", sender, newOracle, err, <<>>)
    /\ UNCHANGED <<owner, scholarshipCounter, totalFunds, students,
                   studentIdToWallet, scholarships, verificationHistory,
                   claimedAmounts, balance, paid, withdrawn>>

\* -------------------------------------------------------- registerStudent
registerErrorNoHashCheck(sender, id, hash) ==
    IF ~(id > 0) THEN InvalidInput
    ELSE IF studentIdToWallet[id] # ZeroAddress THEN DuplicateIdentity
    ELSE IF students[sender].studentId # 0 THEN DuplicateHandle
    ELSE Ok

registerErrorNoIdCheck(sender, id, hash) ==
    IF ~(id > 0) THEN InvalidInput
    ELSE IF students[sender].studentId # 0 THEN DuplicateHandle
    ELSE IF ~(Len(hash) > 0) THEN EmptyHash
    ELSE Ok

registerErrorNoWalletCheck(sender, id, hash) ==
    IF ~(id > 0) THEN InvalidInput
    ELSE IF studentIdToWallet[id] # ZeroAddress THEN DuplicateIdentity
    ELSE IF ~(Len(hash) > 0) THEN EmptyHash
    ELSE Ok

registerError(sender, id, hash) ==
    IF ~(id > 0) THEN InvalidInput
    ELSE IF studentIdToWallet[id] # ZeroAddress THEN DuplicateIdentity
    ELSE IF students[sender].studentId # 0 THEN DuplicateHandle
    ELSE IF ~(Len(hash) > 0) THEN EmptyHash
    ELSE Ok

NewStudent(sender, id, hash) ==
    [studentId |-> id, walletAddress |-> sender, applicationHash |-> hash,
     isEligible |-> FALSE, hasClaimedScholarship |-> FALSE,
     verificationTimestamp |-> 0]

RegisterStudent(sender, id, hash) ==
    LET err == registerError(sender, id, hash) IN
    /\ IF err = Ok
       THEN /\ students' = [students EXCEPT ![sender] = NewStudent(sender, id, hash)]
            /\ studentIdToWallet' = [studentIdToWallet EXCEPT ![id] = sender]
            /\ receipt' = Receipt("registerStudent", sender, id, Ok,
                                  <<"StudentRegistered">>)
       ELSE /\ UNCHANGED <<students, studentIdToWallet>>
            /\ receipt' = Receipt("registerStudent", sender, id, err, <<>>)
    /\ UNCHANGED <<owner, oracleAddress, scholarshipCounter, totalFunds,
                   scholarships, verificationHistory, claimedAmounts,
                   balance, paid, withdrawn>>

\* ------------------------------------------------------ verifyEligibility
verifyErrorAddressFirst(sender, studentAddress, id) ==
    IF studentAddress = ZeroAddress THEN InvalidStudentAddress
    ELSE IF sender # oracleAddress THEN UnauthorizedOracle
    ELSE IF students[studentAddress].studentId # id THEN IdentityMismatch
    ELSE Ok

verifyErrorOwnerToo(sender, studentAddress, id) ==
    IF sender \notin {oracleAddress, owner} THEN UnauthorizedOracle
    ELSE IF studentAddress = ZeroAddress THEN InvalidStudentAddress
    ELSE IF students[studentAddress].studentId # id THEN IdentityMismatch
    ELSE Ok

verifyError(sender, studentAddress, id) ==
    IF sender # oracleAddress THEN UnauthorizedOracle
    ELSE IF studentAddress = ZeroAddress THEN InvalidStudentAddress
    ELSE IF students[studentAddress].studentId # id THEN IdentityMismatch
    ELSE Ok

VerificationRecord(sender, studentAddress, id, isEligible, reason) ==
    [student |-> studentAddress, studentId |-> id, isEligible |-> isEligible,
     reason |-> reason, timestamp |-> BlockTimestamp, verifier |-> sender]

\* verifyEligibility that records a status only when it differs from the
\* current one.
VerifyEligibilityDebounced(sender, studentAddress, id, isEligible, reason) ==
    LET err == verifyError(sender, studentAddress, id) IN
    /\ IF err = Ok
       THEN /\ students' = [students EXCEPT
                   ![studentAddress].isEligible = isEligible,
                   ![studentAddress].verificationTimestamp = BlockTimestamp]
            /\ verificationHistory' =
                   IF students[studentAddress].isEligible = isEligible
                   THEN verificationHistory
                   ELSE [verificationHistory EXCEPT
                           ![studentAddress] = Append(@,
                               VerificationRecord(sender, studentAddress, id,
                                                  isEligible, reason))]
            /\ receipt' = Receipt("verifyEligibility", sender, studentAddress,
                                  Ok, <<"EligibilityVerified">>)
       ELSE /\ UNCHANGED <<students, verificationHistory>>
            /\ receipt' = Receipt("verifyEligibility", sender, studentAddress,
                                  err, <<>>)
    /\ UNCHANGED <<owner, oracleAddress, scholarshipCounter, totalFunds,
                   studentIdToWallet, scholarships, claimedAmounts, balance,
                   paid, withdrawn>>

\* verifyEligibility that writes a fresh account state, claim flag included.
VerifyEligibilityResetsClaim(sender, studentAddress, id, isEligible, reason) ==
    LET err == verifyError(sender, studentAddress, id) IN
    /\ IF err = Ok
       THEN /\ students' = [students EXCEPT
                   ![studentAddress].isEligible = isEligible,
                   ![studentAddress].hasClaimedScholarship = FALSE,
                   ![studentAddress].verificationTimestamp = BlockTimestamp]
            /\ verificationHistory' =
                   [verificationHistory EXCEPT
                      ![studentAddress] = Append(@,
                          VerificationRecord(sender, studentAddress, id,
                                             isEligible, reason))]
            /\ receipt' = Receipt("verifyEligibility", sender, studentAddress,
                                  Ok, <<"EligibilityVerified">>)
       ELSE /\ UNCHANGED <<students, verificationHistory>>
            /\ receipt' = Receipt("verifyEligibility", sender, studentAddress,
                                  err, <<>>)
    /\ UNCHANGED <<owner, oracleAddress, scholarshipCounter, totalFunds,
                   studentIdToWallet, scholarships, claimedAmounts, balance,
                   paid, withdrawn>>

VerifyEligibility(sender, studentAddress, id, isEligible, reason) ==
    LET err == verifyError(sender, studentAddress, id) IN
    /\ IF err = Ok
       THEN /\ students' = [students EXCEPT
                   ![studentAddress].isEligible = isEligible,
                   ![studentAddress].verificationTimestamp = BlockTimestamp]
            /\ verificationHistory' = [verificationHistory EXCEPT
                   ![studentAddress] = Append(@,
                       VerificationRecord(sender, studentAddress, id,
                                          isEligible, reason))]
            /\ receipt' = Receipt("verifyEligibility", sender, studentAddress,
                                  Ok, <<"EligibilityVerified">>)
       ELSE /\ UNCHANGED <<students, verificationHistory>>
            /\ receipt' = Receipt("verifyEligibility", sender, studentAddress,
                                  err, <<>>)
    /\ UNCHANGED <<owner, oracleAddress, scholarshipCounter, totalFunds,
                   studentIdToWallet, scholarships, claimedAmounts, balance,
                   paid, withdrawn>>

\* ------------------------------------------------------ createScholarship
createErrorNoShareCheck(sender, title, beneficiaryCount, value) ==
    IF sender # owner THEN Unauthorized
    ELSE IF ~(value > 0) THEN NoDeposit
    ELSE IF ~(beneficiaryCount > 0) THEN InvalidCapacity
    ELSE IF ~(Len(title) > 0) THEN EmptyTitle
    ELSE Ok

createError(sender, title, beneficiaryCount, value) ==
    IF sender # owner THEN Unauthorized
    ELSE IF ~(value > 0) THEN NoDeposit
    ELSE IF ~(beneficiaryCount > 0) THEN InvalidCapacity
    ELSE IF ~(Len(title) > 0) THEN EmptyTitle
    ELSE IF ~((value \div beneficiaryCount) > 0) THEN ShareTooSmall
    ELSE Ok

\* Every scholarship carrying id 0.
NewScholarshipIdZero(sender, title, beneficiaryCount, value) ==
    [id |-> 0, title |-> title, totalAmount |-> value,
     remainingAmount |-> value, claimAmount |-> value \div beneficiaryCount,
     beneficiaryCount |-> beneficiaryCount, claimsProcessed |-> 0,
     creator |-> sender, createdAt |-> BlockTimestamp, active |-> TRUE]

\* The share rounded up instead of down.
NewScholarshipRoundUp(sender, title, beneficiaryCount, value) ==
    [id |-> scholarshipCounter, title |-> title, totalAmount |-> value,
     remainingAmount |-> value,
     claimAmount |-> (value + beneficiaryCount - 1) \div beneficiaryCount,
     beneficiaryCount |-> beneficiaryCount, claimsProcessed |-> 0,
     creator |-> sender, createdAt |-> BlockTimestamp, active |-> TRUE]

NewScholarship(sender, title, beneficiaryCount, value) ==
    [id |-> scholarshipCounter, title |-> title, totalAmount |-> value,
     remainingAmount |-> value, claimAmount |-> value \div beneficiaryCount,
     beneficiaryCount |-> beneficiaryCount, claimsProcessed |-> 0,
     creator |-> sender, createdAt |-> BlockTimestamp, active |-> TRUE]

\* createScholarship that keeps msg.value when it fails.
CreateScholarshipKeepsValue(sender, title, beneficiaryCount, value) ==
    LET err == createError(sender, title, beneficiaryCount, value) IN
    /\ IF err = Ok
       THEN /\ scholarships' = [scholarships EXCEPT ![scholarshipCounter] =
                   NewScholarship(sender, title, beneficiaryCount, value)]
            /\ totalFunds' = totalFunds + value
            /\ balance' = balance + value
            /\ scholarshipCounter' = scholarshipCounter + 1
            /\ receipt' = Receipt("createScholarship", sender,
                                  scholarshipCounter, Ok, <<"ScholarshipCreated">>)
       ELSE /\ UNCHANGED <<scholarships, totalFunds, scholarshipCounter>>
            /\ balance' = balance + value
            /\ receipt' = Receipt("createScholarship", sender,
                                  scholarshipCounter, err, <<>>)
    /\ UNCHANGED <<owner, oracleAddress, students, studentIdToWallet,
                   verificationHistory, claimedAmounts, paid, withdrawn>>

\* createScholarship that does not count msg.value in totalFunds.
CreateScholarshipUncounted(sender, title, beneficiaryCount, value) ==
    LET err == createError(sender, title, beneficiaryCount, value) IN
    /\ IF err = Ok
       THEN /\ scholarships' = [scholarships EXCEPT ![scholarshipCounter] =
                   NewScholarship(sender, title, beneficiaryCount, value)]
            /\ balance' = balance + value
            /\ scholarshipCounter' = scholarshipCounter + 1
            /\ receipt' = Receipt("createScholarship", sender,
                                  scholarshipCounter, Ok, <<"ScholarshipCreated">>)
       ELSE /\ UNCHANGED <<scholarships, balance, scholarshipCounter>>
            /\ receipt' = Receipt("createScholarship", sender,
                                  scholarshipCounter, err, <<>>)
    /\ UNCHANGED <<owner, oracleAddress, totalFunds, students,
                   studentIdToWallet, verificationHistory, claimedAmounts,
                   paid, withdrawn>>

CreateScholarship(sender, title, beneficiaryCount, value) ==
    LET err == createError(sender, title, beneficiaryCount, value) IN
    /\ IF err = Ok
       THEN /\ scholarships' = [scholarships EXCEPT ![scholarshipCounter] =
                   NewScholarship(sender, title, beneficiaryCount, value)]
            /\ totalFunds' = totalFunds + value
            /\ balance' = balance + value
            /\ scholarshipCounter' = scholarshipCounter + 1
            /\ receipt' = Receipt("createScholarship", sender,
                                  scholarshipCounter, Ok, <<"ScholarshipCreated">>)
       ELSE /\ UNCHANGED <<scholarships, totalFunds, balance, scholarshipCounter>>
            /\ receipt' = Receipt("createScholarship", sender,
                                  scholarshipCounter, err, <<>>)
    /\ UNCHANGED <<owner, oracleAddress, students, studentIdToWallet,
                   verificationHistory, claimedAmounts, paid, withdrawn>>

\* ------------------------------------------------------- claimScholarship
scholarshipExists(id) ==
    id < scholarshipCounter /\ scholarships[id].active

studentIsEligibleEver(student) ==
    \E i \in 1..Len(verificationHistory[student]) :
        verificationHistory[student][i].isEligible

studentIsEligible(student) ==
    students[student].isEligible

\* The low-level call of line 709: it succeeds when the contract holds the
\* value and the recipient accepts it.
transferSucceeds(value, accepts) ==
    balance >= value /\ accepts

claimErrorFlagFirst(sender, id, accepts) ==
    IF ~scholarshipExists(id) THEN PoolNotFound
    ELSE IF students[sender].hasClaimedScholarship THEN AlreadyClaimed
    ELSE IF ~studentIsEligible(sender) THEN NotEligible
    ELSE IF ~(scholarships[id].claimsProcessed < scholarships[id].beneficiaryCount)
         THEN CapacityExhausted
    ELSE IF ~(scholarships[id].remainingAmount >= scholarships[id].claimAmount)
         THEN InsufficientFunds
    ELSE IF ~transferSucceeds(scholarships[id].claimAmount, accepts)
         THEN TransferFailed
    ELSE IF totalFunds < scholarships[id].claimAmount THEN ArithmeticPanic
    ELSE Ok

claimErrorOffByOne(sender, id, accepts) ==
    IF ~scholarshipExists(id) THEN PoolNotFound
    ELSE IF ~studentIsEligible(sender) THEN NotEligible
    ELSE IF students[sender].hasClaimedScholarship THEN AlreadyClaimed
    ELSE IF ~(scholarships[id].claimsProcessed <= scholarships[id].beneficiaryCount)
         THEN CapacityExhausted
    ELSE IF ~(scholarships[id].remainingAmount >= scholarships[id].claimAmount)
         THEN InsufficientFunds
    ELSE IF ~transferSucceeds(scholarships[id].claimAmount, accepts)
         THEN TransferFailed
    ELSE IF totalFunds < scholarships[id].claimAmount THEN ArithmeticPanic
    ELSE Ok

claimError(sender, id, accepts) ==
    IF ~scholarshipExists(id) THEN PoolNotFound
    ELSE IF ~studentIsEligible(sender) THEN NotEligible
    ELSE IF students[sender].hasClaimedScholarship THEN AlreadyClaimed
    ELSE IF ~(scholarships[id].claimsProcessed < scholarships[id].beneficiaryCount)
         THEN CapacityExhausted
    ELSE IF ~(scholarships[id].remainingAmount >= scholarships[id].claimAmount)
         THEN InsufficientFunds
    ELSE IF ~transferSucceeds(scholarships[id].claimAmount, accepts)
         THEN TransferFailed
    ELSE IF totalFunds < scholarships[id].claimAmount THEN ArithmeticPanic
    ELSE Ok

\* The scholarship after one claim has been booked (lines 704-705).
debitedNotReduced(scholarship) ==
    [scholarship EXCEPT !.claimsProcessed = @ + 1]

debitedAll(scholarship) ==
    [scholarship EXCEPT !.claimsProcessed = @ + 1, !.remainingAmount = 0]

debited(scholarship) ==
    [scholarship EXCEPT !.claimsProcessed = @ + 1,
                        !.remainingAmount = @ - scholarship.claimAmount]

\* claimScholarship whose bookkeeping of lines 703-706 survives a failed
\* transfer.
ClaimScholarshipNoRollback(sender, id, accepts) ==
    LET err == claimError(sender, id, accepts) IN
    /\ IF err \in {Ok, TransferFailed}
       THEN LET amount == scholarships[id].claimAmount IN
            /\ students' = [students EXCEPT ![sender].hasClaimedScholarship = TRUE]
            /\ scholarships' = [scholarships EXCEPT ![id] = debited(@)]
            /\ claimedAmounts' = [claimedAmounts EXCEPT ![sender] = @ + amount]
            /\ IF err = Ok
               THEN /\ balance' = balance - amount
                    /\ paid' = [paid EXCEPT ![sender][id] = @ + 1]
                    /\ totalFunds' = totalFunds - amount
                    /\ receipt' = Receipt("claimScholarship", sender, id, Ok,
                                          <<"ScholarshipClaimed">>)
               ELSE /\ UNCHANGED <<balance, paid, totalFunds>>
                    /\ receipt' = Receipt("claimScholarship", sender, id, err, <<>>)
       ELSE /\ UNCHANGED <<students, scholarships, claimedAmounts, balance,
                           paid, totalFunds>>
            /\ receipt' = Receipt("claimScholarship", sender, id, err, <<>>)
    /\ UNCHANGED <<owner, oracleAddress, scholarshipCounter, studentIdToWallet,
                   verificationHistory, withdrawn>>

\* claimScholarship that marks every eligible account as having claimed.
ClaimScholarshipMarksAll(sender, id, accepts) ==
    LET err == claimError(sender, id, accepts) IN
    /\ IF err = Ok
       THEN LET amount == scholarships[id].claimAmount IN
            /\ students' = [h \in Handles |->
                   IF students[h].isEligible
                   THEN [students[h] EXCEPT !.hasClaimedScholarship = TRUE]
                   ELSE students[h]]
            /\ scholarships' = [scholarships EXCEPT ![id] = debited(@)]
            /\ claimedAmounts' = [claimedAmounts EXCEPT ![sender] = @ + amount]
            /\ balance' = balance - amount
            /\ paid' = [paid EXCEPT ![sender][id] = @ + 1]
            /\ totalFunds' = totalFunds - amount
            /\ receipt' = Receipt("claimScholarship", sender, id, Ok,
                                  <<"ScholarshipClaimed">>)
       ELSE /\ UNCHANGED <<students, scholarships, claimedAmounts, balance,
                           paid, totalFunds>>
            /\ receipt' = Receipt("claimScholarship", sender, id, err, <<>>)
    /\ UNCHANGED <<owner, oracleAddress, scholarshipCounter, studentIdToWallet,
                   verificationHistory, withdrawn>>

ClaimScholarship(sender, id, accepts) ==
    LET err == claimError(sender, id, accepts) IN
    /\ IF err = Ok
       THEN LET amount == scholarships[id].claimAmount IN
            /\ students' = [students EXCEPT ![sender].hasClaimedScholarship = TRUE]
            /\ scholarships' = [scholarships EXCEPT ![id] = debited(@)]
            /\ claimedAmounts' = [claimedAmounts EXCEPT ![sender] = @ + amount]
            /\ balance' = balance - amount
            /\ paid' = [paid EXCEPT ![sender][id] = @ + 1]
            /\ totalFunds' = totalFunds - amount
            /\ receipt' = Receipt("claimScholarship", sender, id, Ok,
                                  <<"ScholarshipClaimed">>)
       ELSE /\ UNCHANGED <<students, scholarships, claimedAmounts, balance,
                           paid, totalFunds>>
            /\ receipt' = Receipt("claimScholarship", sender, id, err, <<>>)
    /\ UNCHANGED <<owner, oracleAddress, scholarshipCounter, studentIdToWallet,
                   verificationHistory, withdrawn>>

\* claimScholarship up to the call of line 709: the checks have passed, lines
\* 703-706 are written and the value has left the contract; the recipient's
\* code now runs and may call the contract again.
ClaimTransferBegins(sender, id) ==
    /\ Len(stack) < MaxDepth
    /\ stack # <<>> => sender = stack[Len(stack)].sender
    /\ claimError(sender, id, TRUE) \in {Ok, ArithmeticPanic}
    /\ LET amount == scholarships[id].claimAmount IN
       /\ students' = [students EXCEPT ![sender].hasClaimedScholarship = TRUE]
       /\ scholarships' = [scholarships EXCEPT ![id] = debited(@)]
       /\ claimedAmounts' = [claimedAmounts EXCEPT ![sender] = @ + amount]
       /\ balance' = balance - amount
    /\ stack' = Append(stack, [sender |-> sender, id |-> id, saved |-> ledger])
    /\ receipt' = Receipt("claimScholarship", sender, id, InFlight, <<>>)
    /\ UNCHANGED <<owner, oracleAddress, scholarshipCounter, totalFunds,
                   studentIdToWallet, verificationHistory, paid, withdrawn>>

\* The call of line 709 returns.  When the recipient accepted the value,
\* lines 710-719 run; when it reverted, or line 712 underflows, the whole
\* claimScholarship call reverts, with everything done during the transfer.
ClaimTransferReturns(accepts) ==
    /\ stack # <<>>
    /\ LET top == stack[Len(stack)]
           amount == scholarships[top.id].claimAmount
       IN  IF accepts /\ totalFunds >= amount
           THEN /\ totalFunds' = totalFunds - amount
                /\ paid' = [paid EXCEPT ![top.sender][top.id] = @ + 1]
                /\ receipt' = Receipt("claimScholarship", top.sender, top.id, Ok,
                                      <<"ScholarshipClaimed">>)
                /\ UNCHANGED <<owner, oracleAddress, scholarshipCounter,
                               students, studentIdToWallet, scholarships,
                               verificationHistory, claimedAmounts, balance,
                               withdrawn>>
           ELSE /\ owner' = top.saved[1]
                /\ oracleAddress' = top.saved[2]
                /\ scholarshipCounter' = top.saved[3]
                /\ totalFunds' = top.saved[4]
                /\ students' = top.saved[5]
                /\ studentIdToWallet' = top.saved[6]
                /\ scholarships' = top.saved[7]
                /\ verificationHistory' = top.saved[8]
                /\ claimedAmounts' = top.saved[9]
                /\ balance' = top.saved[10]
                /\ paid' = top.saved[11]
                /\ withdrawn' = top.saved[12]
                /\ receipt' = Receipt("claimScholarship", top.sender, top.id,
                                      IF accepts THEN ArithmeticPanic
                                      ELSE TransferFailed, <<>>)
    /\ stack' = SubSeq(stack, 1, Len(stack) - 1)

\* ------------------------------------------------- withdrawUnclaimedFunds
withdrawErrorStrict(sender, amount, accepts) ==
    IF sender # owner THEN Unauthorized
    ELSE IF ~(balance > amount) THEN InsufficientBalance
    ELSE IF ~transferSucceeds(amount, accepts) THEN WithdrawalFailed
    ELSE Ok

withdrawError(sender, amount, accepts) ==
    IF sender # owner THEN Unauthorized
    ELSE IF ~(balance >= amount) THEN InsufficientBalance
    ELSE IF ~transferSucceeds(amount, accepts) THEN WithdrawalFailed
    ELSE Ok

WithdrawUnclaimedFunds(sender, amount, accepts) ==
    LET err == withdrawError(sender, amount, accepts) IN
    /\ IF err = Ok
       THEN /\ balance' = balance - amount
            /\ withdrawn' = withdrawn + amount
            /\ receipt' = Receipt("withdrawUnclaimedFunds", sender, amount, Ok,
                                  <<"FundsWithdrawn">>)
       ELSE /\ UNCHANGED <<balance, withdrawn>>
            /\ receipt' = Receipt("withdrawUnclaimedFunds", sender, amount,
                                  err, <<>>)
    /\ UNCHANGED <<owner, oracleAddress, scholarshipCounter, totalFunds,
                   students, studentIdToWallet, scholarships,
                   verificationHistory, claimedAmounts, paid>>

\* ---------------------------------------------------------------- receive
\* receive() that takes the value without counting it.
ReceiveFundsUncounted(sender, value) ==
    /\ balance' = balance + value
    /\ receipt' = Receipt("receive", sender, value, Ok, <<"FundsDeposited">>)
    /\ UNCHANGED <<owner, oracleAddress, scholarshipCounter, totalFunds,
                   students, studentIdToWallet, scholarships,
                   verificationHistory, claimedAmounts, paid, withdrawn>>

ReceiveFunds(sender, value) ==
    /\ totalFunds' = totalFunds + value
    /\ balance' = balance + value
    /\ receipt' = Receipt("receive", sender, value, Ok, <<"FundsDeposited">>)
    /\ UNCHANGED <<owner, oracleAddress, scholarshipCounter, students,
                   studentIdToWallet, scholarships, verificationHistory,
                   claimedAmounts, paid, withdrawn>>

\* Number of VerificationRecords stored over all addresses.
RECURSIVE SumLen(_)
SumLen(S) ==
    IF S = {} THEN 0
    ELSE LET h == CHOOSE x \in S : TRUE
         IN Len(verificationHistory[h]) + SumLen(S \ {h})

\* The calls explored: `in` names the arguments the callers draw from and
\* the sizes up to which the unbounded collections are followed; `senders`
\* are the addresses that can call at this point.
Calls(in, senders) ==
    \/ \E sender \in senders, newOracle \in in.oracles :
          SetOracleAddress(sender, newOracle)
    \/ \E sender \in senders, id \in in.ids, hash \in in.hashes :
          /\ <<sender, id>> \in in.registrations
          /\ RegisterStudent(sender, id, hash)
    \/ \E sender \in senders, studentAddress \in in.targets, id \in in.ids,
          isEligible \in in.flags, reason \in Reasons :
          /\ verifyError(sender, studentAddress, id) = Ok
                => SumLen(Handles) < in.maxHist
          /\ VerifyEligibility(sender, studentAddress, id, isEligible, reason)
    \/ \E sender \in senders, title \in in.titles,
          beneficiaryCount \in in.capacities, value \in in.values :
          /\ createError(sender, title, beneficiaryCount, value) = Ok
                => scholarshipCounter < in.maxPools
          /\ CreateScholarship(sender, title, beneficiaryCount, value)
    \/ \E sender \in senders, id \in in.claimIds, accepts \in in.accepts :
          ClaimScholarship(sender, id, accepts)
    \/ \E sender \in senders, amount \in in.amounts, accepts \in in.accepts :
          WithdrawUnclaimedFunds(sender, amount, accepts)
    \/ \E sender \in senders, value \in in.deposits :
          /\ totalFunds + value <= in.maxFunds
          /\ ReceiveFunds(sender, value)

\* Transactions only: every call runs to its end before the next one starts.
NextIn(in) ==
    /\ Calls(in, in.senders)
    /\ UNCHANGED <<stack, log, manager, pages>>

\* Transactions with the log they leave: the events of a transaction are
\* appended when it ends.
NextLoggedIn(in) ==
    /\ Calls(in, in.senders)
    /\ log' = log \o receipt'.events
    /\ Len(log') <= MaxLog
    /\ UNCHANGED <<stack, manager, pages>>

\* Transactions whose share transfer hands control to the recipient: while
\* a transfer is in flight only the recipient calls, until it returns.
NextReentrantIn(in) ==
    \/ /\ stack = <<>>
       /\ Calls(in, in.senders)
       /\ UNCHANGED <<stack, log, manager, pages>>
    \/ \E sender \in in.senders, id \in in.claimIds :
          ClaimTransferBegins(sender, id) /\ UNCHANGED <<log, manager, pages>>
    \/ /\ stack # <<>>
       /\ Calls(in, {stack[Len(stack)].sender})
       /\ UNCHANGED <<stack, log, manager, pages>>
    \/ \E accepts \in in.accepts :
          ClaimTransferReturns(accepts) /\ UNCHANGED <<log, manager, pages>>

\* One student (address 2) beside the owner: the whole life of an account
\* over two scholarships, with eligibility set, revoked and set again.
Lifecycle ==
    [senders |-> 1..2, oracles |-> 0..1, ids |-> 0..1, hashes |-> Hashes,
     registrations |-> (1..2) \X (0..1),
     targets |-> {0, 2}, flags |-> BOOLEAN, titles |-> Titles,
     capacities |-> {0, 2}, values |-> {0, 3},
     claimIds |-> 0..MaxPools, accepts |-> BOOLEAN,
     amounts |-> {0}, deposits |-> {0},
     maxHist |-> MaxHist, maxPools |-> MaxPools, maxFunds |-> MaxFunds]

\* The money: two scholarships of every funding value, deposits and
\* withdrawals, beside one student who is verified once.
Funds ==
    [senders |-> 1..2, oracles |-> {1}, ids |-> {1}, hashes |-> {"QmHash"},
     registrations |-> (1..2) \X {1},
     targets |-> {2}, flags |-> {TRUE}, titles |-> {"Merit"},
     capacities |-> {0, 2}, values |-> Values,
     claimIds |-> 0..MaxPools, accepts |-> BOOLEAN,
     amounts |-> 0..1, deposits |-> 0..1,
     maxHist |-> 1, maxPools |-> 2, maxFunds |-> MaxFunds]

\* The identity registry: every address registers with every id.
Registry ==
    [senders |-> Handles, oracles |-> {1}, ids |-> Ids, hashes |-> Hashes,
     registrations |-> Handles \X Ids,
     targets |-> {2}, flags |-> {TRUE}, titles |-> {"Merit"},
     capacities |-> {1}, values |-> {1},
     claimIds |-> {0}, accepts |-> {TRUE},
     amounts |-> {0}, deposits |-> {0},
     maxHist |-> 1, maxPools |-> 1, maxFunds |-> MaxFunds]

\* One scholarship and more eligible students than it has places; address h
\* registers with id h.
Capacity ==
    [senders |-> Handles, oracles |-> {1}, ids |-> Handles, hashes |-> {"QmHash"},
     registrations |-> {<<h, h>> : h \in Handles},
     targets |-> Handles, flags |-> {TRUE}, titles |-> {"Merit"},
     capacities |-> 1..MaxCapacity, values |-> {MaxValue},
     claimIds |-> 0..1, accepts |-> {TRUE},
     amounts |-> {0}, deposits |-> {0},
     maxHist |-> MaxHandles, maxPools |-> 1, maxFunds |-> MaxFunds]

\* The capabilities: every address calls every guarded function while the
\* owner moves the oracle role between the addresses; address 3 is the
\* student.
Access ==
    [senders |-> Handles, oracles |-> Addresses, ids |-> {1}, hashes |-> {"QmHash"},
     registrations |-> {<<3, 1>>},
     targets |-> {0, 3}, flags |-> {TRUE}, titles |-> Titles,
     capacities |-> {0, 1}, values |-> {0, 1},
     claimIds |-> {0}, accepts |-> {TRUE},
     amounts |-> 0..1, deposits |-> {0},
     maxHist |-> 2, maxPools |-> 1, maxFunds |-> MaxFunds]

\* Two students (addresses 2 and 3) and one scholarship with a single place,
\* with eligibility granted and revoked and with recipients that refuse the
\* transfer.
Claims ==
    [senders |-> Handles, oracles |-> {1}, ids |-> 2..3, hashes |-> {"QmHash"},
     registrations |-> {<<2, 2>>, <<3, 3>>},
     targets |-> 2..3, flags |-> BOOLEAN, titles |-> {"Merit"},
     capacities |-> {1}, values |-> {2},
     claimIds |-> 0..1, accepts |-> BOOLEAN,
     amounts |-> {0}, deposits |-> {0},
     maxHist |-> 3, maxPools |-> 1, maxFunds |-> MaxFunds]

\* Scholarship creation with every title, capacity and funding value, beside
\* one student who claims from the first scholarship.
Pools ==
    [senders |-> 1..2, oracles |-> {1}, ids |-> {1}, hashes |-> {"QmHash"},
     registrations |-> {<<2, 1>>},
     targets |-> {2}, flags |-> {TRUE}, titles |-> Titles,
     capacities |-> Capacities, values |-> Values,
     claimIds |-> {0}, accepts |-> {TRUE},
     amounts |-> {0}, deposits |-> {0},
     maxHist |-> 1, maxPools |-> 2, maxFunds |-> MaxFunds]

\* The owner, who is the oracle, and address 2 as students whose code calls
\* back during the transfer of their share, with and without registration.
Reentrant ==
    [senders |-> 1..2, oracles |-> {1}, ids |-> 0..1, hashes |-> {"QmHash"},
     registrations |-> (1..2) \X {1},
     targets |-> 1..2, flags |-> BOOLEAN, titles |-> {"Merit"},
     capacities |-> {2}, values |-> {3},
     claimIds |-> {0}, accepts |-> BOOLEAN,
     amounts |-> {0}, deposits |-> {1},
     maxHist |-> 2, maxPools |-> 1, maxFunds |-> MaxFunds]

\* One account taken from registration to its claim, with the owner's
\* calls and deposits of nothing in between.
Logged ==
    [senders |-> 1..2, oracles |-> {1}, ids |-> {1}, hashes |-> {"QmHash"},
     registrations |-> {<<2, 1>>},
     targets |-> {2}, flags |-> {TRUE}, titles |-> {"Merit"},
     capacities |-> {1}, values |-> {1},
     claimIds |-> {0}, accepts |-> {TRUE},
     amounts |-> {0}, deposits |-> {0},
     maxHist |-> 1, maxPools |-> 1, maxFunds |-> MaxFunds]

\* ------------------------------------------------------ ScholarshipManager
\* The sponsor-assigned contract: the admin verifies sponsors, assigns one
\* of them to a student with an amount and a GPA, the sponsor sends the
\* amount, and the student claims it.
GpaThreshold == 300    \* GPA 3.00 in the contract's scale (3.50 is 350)

granteeIsEligible(h) ==
    /\ manager.students[h].isVerified
    /\ manager.students[h].gpa >= GpaThreshold

verifySponsorError(sender, sponsorAddr) ==
    IF sender # manager.admin THEN Unauthorized
    ELSE IF sponsorAddr = ZeroAddress THEN InvalidSponsor
    ELSE Ok

VerifySponsor(sender, sponsorAddr) ==
    LET err == verifySponsorError(sender, sponsorAddr) IN
    /\ manager' = IF err = Ok
                  THEN [manager EXCEPT !.verifiedSponsors = @ \cup {sponsorAddr}]
                  ELSE manager
    /\ receipt' = Receipt("verifySponsor", sender, sponsorAddr, err, <<>>)
    /\ UNCHANGED <<ledger, stack, log, pages>>

verifyStudentError(sender, studentAddr, assignedSponsor, amount) ==
    IF sender # manager.admin THEN Unauthorized
    ELSE IF studentAddr = ZeroAddress THEN InvalidStudentAddress
    ELSE IF assignedSponsor \notin manager.verifiedSponsors
         THEN SponsorNotVerified
    ELSE IF amount = 0 THEN InvalidAmount
    ELSE IF manager.students[studentAddr].isVerified THEN AlreadyVerified
    ELSE Ok

VerifyStudent(sender, studentAddr, assignedSponsor, amount, initialGpa) ==
    LET err == verifyStudentError(sender, studentAddr, assignedSponsor, amount)
    IN
    /\ manager' = IF err = Ok
                  THEN [manager EXCEPT !.students[studentAddr] =
                          [isVerified |-> TRUE,
                           assignedSponsor |-> assignedSponsor,
                           scholarshipAmount |-> amount,
                           gpa |-> initialGpa, balance |-> 0,
                           hasClaimedScholarship |-> FALSE]]
                  ELSE manager
    /\ receipt' = Receipt("verifyStudent", sender, studentAddr, err, <<>>)
    /\ UNCHANGED <<ledger, stack, log, pages>>

updateGpaError(sender, studentAddr) ==
    IF sender # manager.admin THEN Unauthorized
    ELSE IF studentAddr = ZeroAddress THEN InvalidStudentAddress
    ELSE IF ~manager.students[studentAddr].isVerified THEN StudentNotVerified
    ELSE Ok

UpdateStudentGPA(sender, studentAddr, newGpa) ==
    LET err == updateGpaError(sender, studentAddr) IN
    /\ manager' = IF err = Ok
                  THEN [manager EXCEPT !.students[studentAddr].gpa = newGpa]
                  ELSE manager
    /\ receipt' = Receipt("updateStudentGPA", sender, studentAddr, err, <<>>)
    /\ UNCHANGED <<ledger, stack, log, pages>>

\* fundStudent that takes the amount from any verified sponsor.
fundErrorAnySponsor(sender, studentAddr, value) ==
    IF studentAddr = ZeroAddress THEN InvalidStudentAddress
    ELSE IF ~manager.students[studentAddr].isVerified THEN StudentNotVerified
    ELSE IF sender \notin manager.verifiedSponsors THEN NotAssignedSponsor
    ELSE IF manager.students[studentAddr].hasClaimedScholarship
         THEN AlreadyClaimed
    ELSE IF manager.students[studentAddr].balance # 0 THEN AlreadyFunded
    ELSE IF value # manager.students[studentAddr].scholarshipAmount
         THEN WrongAmount
    ELSE Ok

fundError(sender, studentAddr, value) ==
    IF studentAddr = ZeroAddress THEN InvalidStudentAddress
    ELSE IF ~manager.students[studentAddr].isVerified THEN StudentNotVerified
    ELSE IF sender # manager.students[studentAddr].assignedSponsor
         THEN NotAssignedSponsor
    ELSE IF manager.students[studentAddr].hasClaimedScholarship
         THEN AlreadyClaimed
    ELSE IF manager.students[studentAddr].balance # 0 THEN AlreadyFunded
    ELSE IF value # manager.students[studentAddr].scholarshipAmount
         THEN WrongAmount
    ELSE Ok

FundStudent(sender, studentAddr, value) ==
    LET err == fundError(sender, studentAddr, value) IN
    /\ manager' = IF err = Ok
                  THEN [manager EXCEPT
                          !.students[studentAddr].balance = value,
                          !.balance = @ + value]
                  ELSE manager
    /\ receipt' = Receipt("fundStudent", sender, studentAddr, err, <<>>)
    /\ UNCHANGED <<ledger, stack, log, pages>>

withdrawSponsorError(sender, studentAddr, accepts) ==
    IF studentAddr = ZeroAddress THEN InvalidStudentAddress
    ELSE IF sender # manager.students[studentAddr].assignedSponsor
         THEN NotAssignedSponsor
    ELSE IF manager.students[studentAddr].balance = 0 THEN NotFunded
    ELSE IF ~accepts THEN WithdrawalFailed
    ELSE Ok

WithdrawSponsorFunds(sender, studentAddr, accepts) ==
    LET err == withdrawSponsorError(sender, studentAddr, accepts) IN
    /\ manager' = IF err = Ok
                  THEN [manager EXCEPT
                          !.students[studentAddr].balance = 0,
                          !.balance = @ - manager.students[studentAddr].balance]
                  ELSE manager
    /\ receipt' = Receipt("withdrawSponsorFunds", sender, studentAddr, err,
                          <<>>)
    /\ UNCHANGED <<ledger, stack, log, pages>>

grantError(sender, accepts) ==
    IF ~granteeIsEligible(sender) THEN NotEligible
    ELSE IF manager.students[sender].hasClaimedScholarship THEN AlreadyClaimed
    ELSE IF manager.students[sender].balance = 0 THEN NotFunded
    ELSE IF ~accepts THEN TransferFailed
    ELSE Ok

\* claimScholarship() of ScholarshipManager.
GrantScholarship(sender, accepts) ==
    LET err == grantError(sender, accepts) IN
    /\ manager' = IF err = Ok
                  THEN [manager EXCEPT
                          !.students[sender].hasClaimedScholarship = TRUE,
                          !.students[sender].balance = 0,
                          !.balance = @ - manager.students[sender].balance,
                          !.paid[sender] = @ + 1]
                  ELSE manager
    /\ receipt' = Receipt("ScholarshipManager.claimScholarship", sender,
                          sender, err,
                          IF err = Ok THEN <<"ScholarshipGranted">> ELSE <<>>)
    /\ UNCHANGED <<ledger, stack, log, pages>>

\* The admin (1), two sponsors (2 and 3) and two students (2 and 3, each
\* possibly assigned to the other), with a GPA on either side of the
\* threshold; the amount set is 1, the value sent is below, at or above it.
Parties == 1..3
Grantees == {2, 3}
Gpas == {GpaThreshold - 1, GpaThreshold}

NextManager ==
    \/ \E sender \in Parties, sponsorAddr \in Grantees :
          VerifySponsor(sender, sponsorAddr)
    \/ \E sender \in Parties, studentAddr \in Grantees,
          assignedSponsor \in Grantees, amount \in 0..1,
          initialGpa \in Gpas :
          VerifyStudent(sender, studentAddr, assignedSponsor, amount,
                        initialGpa)
    \/ \E sender \in Parties, studentAddr \in Grantees, newGpa \in Gpas :
          UpdateStudentGPA(sender, studentAddr, newGpa)
    \/ \E sender \in Parties, studentAddr \in Grantees,
          value \in 0..MaxGrant :
          FundStudent(sender, studentAddr, value)
    \/ \E sender \in Parties, studentAddr \in Grantees, accepts \in BOOLEAN :
          WithdrawSponsorFunds(sender, studentAddr, accepts)
    \/ \E sender \in Parties, accepts \in BOOLEAN :
          GrantScholarship(sender, accepts)

\* -------------------------------------------------------- Index dashboard
Roles == {"public", "committee", "admin"}

applicants ==
    << [id |-> "APL-2024-001", name |-> "Maria Santos", academicScore |-> 92,
        financialStatus |-> "Low Income", eligibility |-> "Eligible",
        status |-> "Selected",
        reason |-> "High academic performance with demonstrated financial need"],
       [id |-> "APL-2024-002", name |-> "Juan Dela Cruz", academicScore |-> 88,
        financialStatus |-> "Middle Income", eligibility |-> "Eligible",
        status |-> "Selected",
        reason |-> "Outstanding extracurricular achievements and academic excellence"],
       [id |-> "APL-2024-003", name |-> "Ana Reyes", academicScore |-> 75,
        financialStatus |-> "Low Income", eligibility |-> "Not Eligible",
        status |-> "Rejected",
        reason |-> "Academic score below minimum threshold (80)"],
       [id |-> "APL-2024-004", name |-> "Pedro Garcia", academicScore |-> 95,
        financialStatus |-> "Low Income", eligibility |-> "Eligible",
        status |-> "Selected",
        reason |-> "Top academic performer with verified financial hardship"],
       [id |-> "APL-2024-005", name |-> "Elena Cruz", academicScore |-> 85,
        financialStatus |-> "Low Income", eligibility |-> "Eligible",
        status |-> "Pending",
        reason |-> "Under review - awaiting document verification"] >>

beneficiaries ==
    << [id |-> "BEN-001", blockchainId |-> "0xABCD...1234",
        name |-> "Maria Santos", verificationStatus |-> "verified"],
       [id |-> "BEN-002", blockchainId |-> "0xEFGH...5678",
        name |-> "Juan Dela Cruz", verificationStatus |-> "verified"],
       [id |-> "BEN-003", blockchainId |-> "0xIJKL...9012",
        name |-> "Unknown", verificationStatus |-> "duplicate"],
       [id |-> "BEN-004", blockchainId |-> "0xMNOP...3456",
        name |-> "Pedro Garcia", verificationStatus |-> "verified"] >>

auditLogs ==
    << [action |-> "Fund Release Approved", refId |-> "BLK-REF-001"],
       [action |-> "Applicant Verified", refId |-> "BLK-REF-002"],
       [action |-> "Selection Criteria Updated", refId |-> "BLK-REF-003"],
       [action |-> "New Beneficiary Registered", refId |-> "BLK-REF-004"] >>

\* The text shown in place of a beneficiary's name (eight bullets).
Masked == "********"

\* The condition of the fund tracking section (line 232) in place of the
\* one that guards the names.
ShowsNamesToPublicToo(role) == role = "admin" \/ role = "public"

\* The condition of lines 176, 192 and 325.
ShowsNames(role) == role = "committee" \/ role = "admin"

\* The rows of the applicant table (lines 187-188) and the cells of one row.
ListedApplicants(role) ==
    SelectSeq(applicants,
              LAMBDA a : IF role = "public" THEN a.status = "Selected" ELSE TRUE)

ApplicantRow(role, a) ==
    [id |-> a.id,
     name |-> IF ShowsNames(role) THEN <<a.name>> ELSE <<>>,
     academicScore |-> a.academicScore,
     financialStatus |-> a.financialStatus,
     eligibility |-> a.eligibility,
     status |-> a.status,
     reason |-> a.reason]

ApplicantTable(role) ==
    [i \in 1..Len(ListedApplicants(role)) |->
        ApplicantRow(role, ListedApplicants(role)[i])]

\* One card of the beneficiary section (lines 311-329).
BeneficiaryCard(role, ben) ==
    [id |-> ben.id,
     name |-> IF ShowsNames(role) THEN ben.name ELSE Masked,
     blockchainId |-> ben.blockchainId]

BeneficiaryCards(role) ==
    [i \in 1..Len(beneficiaries) |-> BeneficiaryCard(role, beneficiaries[i])]

\* The audit dashboard (lines 359-410): present for the admin only.
AuditDashboard(role) ==
    IF role = "admin" THEN <<auditLogs>> ELSE <<>>

\* What the page shows for a role.
Rendered(role) ==
    [applicantTable |-> ApplicantTable(role),
     beneficiaryCards |-> BeneficiaryCards(role),
     auditDashboard |-> AuditDashboard(role)]

\* A click on one of the three role cards (line 140).
SetActiveRole(role) ==
    /\ Len(selections) < MaxClicks
    /\ activeRole' = role
    /\ selections' = Append(selections, role)
    /\ UNCHANGED <<chain, demo>>

NextDashboard == \E role \in Roles : SetActiveRole(role)

\* -------------------------------------------------------- ScholarshipDemo
\* An entry of the log; the time of day that pushLog puts in front of the
\* message is left out.
Entry(message, detail) == [message |-> message, detail |-> detail]

pushLog(logs, message, detail) == <<Entry(message, detail)>> \o logs

\* ensureReady(): whether the write may go on, and the log it leaves.
ensureReady(d) ==
    IF ~d.walletClient
    THEN [ready |-> FALSE, logs |-> pushLog(d.logs, "MetaMask not found.", "")]
    ELSE IF d.contractAddress = ""
    THEN [ready |-> FALSE,
          logs |-> pushLog(d.logs, "Contract address is required.", "")]
    ELSE IF d.walletAddress = ""
    THEN [ready |-> FALSE, logs |-> pushLog(d.logs, "Connect wallet first.", "")]
    ELSE [ready |-> TRUE, logs |-> d.logs]

\* parseEther and BigInt throw on text that is not a number.
parseEtherThrows(text) == text \notin {"", "0.1"}
BigIntThrows(text) == text \notin {"", "350"}

Outcome(handler, outcome) == [handler |-> handler, outcome |-> outcome]

\* The page is opened: the component is mounted with fresh state, and
\* walletClient is made when window.ethereum is there.
OpenDemo(hasEthereum) ==
    /\ demo' = [NoDemo EXCEPT !.mounted = TRUE, !.walletClient = hasEthereum,
                              !.last = Outcome("mount", "done")]
    /\ UNCHANGED <<chain, activeRole, selections>>

\* The onChange handlers of the inputs.
SetInput(field, text) ==
    /\ demo.mounted
    /\ demo' = [demo EXCEPT ![field] = text,
                            !.last = Outcome("onChange", field)]
    /\ UNCHANGED <<chain, activeRole, selections>>

ConnectWallet(account) ==
    /\ demo.mounted
    /\ demo' = IF ~demo.walletClient
               THEN [demo EXCEPT
                       !.logs = pushLog(@, "MetaMask not found. Install it to continue.", ""),
                       !.last = Outcome("connectWallet", "refused")]
               ELSE [demo EXCEPT
                       !.walletAddress = account,
                       !.logs = pushLog(@, "Connected wallet: ", account),
                       !.last = Outcome("connectWallet", "done")]
    /\ Len(demo'.logs) <= MaxDemoLog
    /\ UNCHANGED <<chain, activeRole, selections>>

\* A handler that writes: refused with `message` when ensureReady() fails or
\* a required input is empty, ended by an exception when an argument cannot
\* be converted, and otherwise waiting for writeContract.
Write(handler, inputMissing, message, throws) ==
    LET r == ensureReady(demo) IN
    /\ demo.mounted
    /\ demo' = IF ~r.ready \/ inputMissing
               THEN [demo EXCEPT
                       !.logs = IF message = "" THEN r.logs
                                ELSE pushLog(r.logs, message, ""),
                       !.last = Outcome(handler, "refused")]
               ELSE IF throws
               THEN [demo EXCEPT !.last = Outcome(handler, "threw")]
               ELSE [demo EXCEPT !.pending = Append(@, handler),
                                 !.last = Outcome(handler, "issued")]
    /\ Len(demo'.logs) <= MaxDemoLog
    /\ Len(demo'.pending) <= MaxPending
    /\ UNCHANGED <<chain, activeRole, selections>>

DemoVerifySponsor ==
    Write("verifySponsor", demo.sponsorAddress = "",
          "Sponsor address is required.", FALSE)

DemoVerifyStudent ==
    Write("verifyStudent",
          demo.studentAddress = "" \/ demo.sponsorAddress = "",
          "Student and sponsor addresses are required.",
          parseEtherThrows(demo.amountEth) \/ BigIntThrows(demo.gpaScaled))

DemoFundStudent ==
    Write("fundStudent", demo.studentAddress = "",
          "Student address is required.", parseEtherThrows(demo.amountEth))

DemoClaimScholarship ==
    Write("claimScholarship", FALSE, "", FALSE)

SentMessage(handler) ==
    CASE handler = "verifySponsor" -> "verifySponsor sent: "
      [] handler = "verifyStudent" -> "verifyStudent sent: "
      [] handler = "fundStudent" -> "fundStudent sent: "
      [] handler = "claimScholarship" -> "claimScholarship sent: "

\* The promise of writeContract resolves with the transaction hash.
WriteResolves(i, hash) ==
    /\ i \in DOMAIN demo.pending
    /\ demo' = [demo EXCEPT
                  !.pending = SubSeq(@, 1, i - 1) \o SubSeq(@, i + 1, Len(@)),
                  !.logs = pushLog(@, SentMessage(demo.pending[i]), hash),
                  !.last = Outcome(demo.pending[i], "sent")]
    /\ Len(demo'.logs) <= MaxDemoLog
    /\ UNCHANGED <<chain, activeRole, selections>>

\* The promise rejects (the user declines in the wallet, the node refuses):
\* the handler ends there.
WriteRejects(i) ==
    /\ i \in DOMAIN demo.pending
    /\ demo' = [demo EXCEPT
                  !.pending = SubSeq(@, 1, i - 1) \o SubSeq(@, i + 1, Len(@)),
                  !.last = Outcome(demo.pending[i], "rejected")]
    /\ UNCHANGED <<chain, activeRole, selections>>

NextDemo ==
    \/ \E hasEthereum \in BOOLEAN : OpenDemo(hasEthereum)
    \/ \E text \in {"", "0xContract"} : SetInput("contractAddress", text)
    \/ \E text \in {"", "0xSponsor"} : SetInput("sponsorAddress", text)
    \/ \E text \in {"", "0xStudent"} : SetInput("studentAddress", text)
    \/ \E text \in {"", "0.1", "abc"} : SetInput("amountEth", text)
    \/ \E text \in {"350", "3.5"} : SetInput("gpaScaled", text)
    \/ \E account \in {"", "0xWallet"} : ConnectWallet(account)
    \/ DemoVerifySponsor
    \/ DemoVerifyStudent
    \/ DemoFundStudent
    \/ DemoClaimScholarship
    \/ \E i \in 1..MaxPending : WriteResolves(i, "0xHash")
    \/ \E i \in 1..MaxPending : WriteRejects(i)

Next == NextIn(Lifecycle)
NextFunds == NextIn(Funds)
NextRegistry == NextIn(Registry)
NextCapacity == NextIn(Capacity)
NextAccess == NextIn(Access)
NextClaims == NextIn(Claims)
NextPools == NextIn(Pools)
NextReentrant == NextReentrantIn(Reentrant)
NextLogged == NextLoggedIn(Logged)

Spec == Init /\ [][Next]_vars
SpecFunds == Init /\ [][NextFunds]_vars
SpecRegistry == Init /\ [][NextRegistry]_vars
SpecCapacity == Init /\ [][NextCapacity]_vars
SpecAccess == Init /\ [][NextAccess]_vars
SpecClaims == Init /\ [][NextClaims]_vars
SpecPools == Init /\ [][NextPools]_vars
SpecReentrant == Init /\ [][NextReentrant]_vars
SpecLogged == Init /\ [][NextLogged]_vars
SpecManager == Init /\ [][NextManager]_vars
SpecDashboard == Init /\ [][NextDashboard]_vars
SpecDemo == Init /\ [][NextDemo]_vars

\* ================================================================ claims
Created == {p \in PoolIds : p < scholarshipCounter}
Registered == {h \in Handles : students[h].studentId # 0}
IsClaim(r) == r.op = "claimScholarship"
IsRegister(r) == r.op = "registerStudent"
LastRecord(h) == verificationHistory[h][Len(verificationHistory[h])]
IsVerify(r) == r.op = "verifyEligibility"
Guarded == {"registerStudent", "verifyEligibility", "createScholarship",
            "claimScholarship", "withdrawUnclaimedFunds", "setOracleAddress"}
InvalidInputKind == {InvalidInput, EmptyHash}
IsWithdraw(r) == r.op = "withdrawUnclaimedFunds"
OwnerOnly == {"createScholarship", "withdrawUnclaimedFunds", "setOracleAddress"}

\* C1: for every (handle, scholarship) pair the scholarship's share is
\* transferred to that handle at most once, whatever calls were made before.
ExactlyOnceClaim ==
    \A h \in Handles, p \in PoolIds : paid[h][p] <= 1

\* C2: for every created scholarship, in every reachable state,
\* remainingAmount = totalAmount - claimsProcessed * claimAmount.
Conservation ==
    \A p \in Created :
        scholarships[p].remainingAmount =
            scholarships[p].totalAmount
              - scholarships[p].claimsProcessed * scholarships[p].claimAmount

ConservationWitness ==
    \E p \in Created :
        /\ scholarships[p].claimsProcessed > 0
        /\ scholarships[p].remainingAmount > 0
        /\ scholarships[p].totalAmount % scholarships[p].beneficiaryCount # 0
        /\ withdrawn > 0

\* C3: for every created scholarship, in every reachable state,
\* remainingAmount + claimsProcessed * claimAmount = totalAmount - (sum of
\* the amounts withdrawn): a withdrawal is booked against remainingAmount.
ConservationUnderWithdrawal ==
    \A p \in Created :
        scholarships[p].remainingAmount
          + scholarships[p].claimsProcessed * scholarships[p].claimAmount
            = scholarships[p].totalAmount - withdrawn

CapacityBound ==
    /\ [](\A p \in Created :
            scholarships[p].claimsProcessed <= scholarships[p].beneficiaryCount)
    /\ [][(/\ IsClaim(receipt')
           /\ scholarshipExists(receipt'.arg)
           /\ scholarships[receipt'.arg].claimsProcessed
                = scholarships[receipt'.arg].beneficiaryCount) =>
             /\ receipt'.err # Ok
             /\ UNCHANGED ledger
             /\ (/\ students[receipt'.sender].isEligible
                 /\ ~students[receipt'.sender].hasClaimedScholarship) =>
                    receipt'.err = CapacityExhausted]_vars

CapacityBoundWitness ==
    /\ IsClaim(receipt)
    /\ receipt.err = CapacityExhausted
    /\ scholarships[receipt.arg].claimsProcessed
          = scholarships[receipt.arg].beneficiaryCount
    /\ scholarships[receipt.arg].beneficiaryCount > 1
    /\ scholarships[receipt.arg].remainingAmount > 0

\* C6: registerStudent with an id that another handle has registered fails
\* with DuplicateIdentity and changes neither the accounts nor the binding of
\* the id to its first registrant.
SybilResistanceIdentity ==
    [][(/\ IsRegister(receipt')
        /\ receipt'.arg # 0
        /\ studentIdToWallet[receipt'.arg] # ZeroAddress
        /\ studentIdToWallet[receipt'.arg] # receipt'.sender) =>
          /\ receipt'.err = DuplicateIdentity
          /\ UNCHANGED ledger]_vars

SybilResistanceIdentityWitness ==
    /\ IsRegister(receipt)
    /\ receipt.err = DuplicateIdentity
    /\ studentIdToWallet[receipt.arg] \in Handles \ {receipt.sender}
    /\ students[receipt.sender].studentId = 0

\* C7 as stated: registerStudent from a handle that is already bound to an
\* account fails with DuplicateHandle whatever non-zero id is supplied, a
\* fresh one or the one the handle registered itself.
SybilResistanceHandleAnyId ==
    [][(/\ IsRegister(receipt')
        /\ students[receipt'.sender].studentId # 0
        /\ receipt'.arg # 0) =>
          /\ receipt'.err = DuplicateHandle
          /\ UNCHANGED ledger]_vars

\* C7 amended: registerStudent from a handle that is already bound to an
\* account always fails and changes no state; the error is DuplicateHandle
\* when the id is non-zero and not registered yet, DuplicateIdentity when the
\* id is registered (the handle's own id included) and InvalidInput for id 0.
SybilResistanceHandle ==
    [][(IsRegister(receipt') /\ students[receipt'.sender].studentId # 0) =>
          /\ UNCHANGED ledger
          /\ receipt'.err =
               IF receipt'.arg = 0 THEN InvalidInput
               ELSE IF studentIdToWallet[receipt'.arg] # ZeroAddress
                    THEN DuplicateIdentity
               ELSE DuplicateHandle]_vars

SybilResistanceHandleWitness ==
    /\ IsRegister(receipt)
    /\ receipt.err = DuplicateHandle
    /\ students[receipt.sender].studentId \notin {0, receipt.arg}
    /\ studentIdToWallet[receipt.arg] = ZeroAddress

\* C8: studentIdToWallet[id] = w exactly when students[w].studentId = id (id
\* and w non-zero), and a studentId and walletAddress, once set, never change.
OneToOneBinding ==
    /\ [](\A id \in Ids \ {0}, w \in Handles :
            studentIdToWallet[id] = w <=> students[w].studentId = id)
    /\ [][\A h \in Registered :
            /\ students'[h].studentId = students[h].studentId
            /\ students'[h].walletAddress = students[h].walletAddress
            /\ students[h].walletAddress = h]_vars

OneToOneBindingWitness ==
    /\ Cardinality(Registered) >= 2
    /\ IsRegister(receipt)
    /\ receipt.err # Ok

\* C9: once hasClaimedScholarship is true for a handle it is true in every
\* later state.
ClaimedFlagMonotone ==
    [][\A h \in Handles :
          students[h].hasClaimedScholarship =>
              students'[h].hasClaimedScholarship]_vars

\* C10: a registered, eligible account that has been paid from one
\* scholarship and claims another one, which exists, has places left and has
\* not paid it, is not rejected as AlreadyClaimed.
ClaimedFlagPerPool ==
    [][(/\ IsClaim(receipt')
        /\ receipt'.sender \in Registered
        /\ students[receipt'.sender].isEligible
        /\ scholarshipExists(receipt'.arg)
        /\ scholarships[receipt'.arg].claimsProcessed
              < scholarships[receipt'.arg].beneficiaryCount
        /\ paid[receipt'.sender][receipt'.arg] = 0
        /\ \E p \in Created \ {receipt'.arg} : paid[receipt'.sender][p] > 0) =>
          receipt'.err # AlreadyClaimed]_vars

\* C11: in every reachable state, for every handle with a non-empty
\* verificationHistory, students[handle].isEligible equals the isEligible
\* field of the last record of that history; a handle with an empty history
\* has isEligible false.
EligibilityProjection ==
    \A h \in Handles :
        students[h].isEligible =
            (verificationHistory[h] # <<>> /\ LastRecord(h).isEligible)

\* C12: verifyEligibility called by anyone but the current oracleAddress, and
\* createScholarship, withdrawUnclaimedFunds or setOracleAddress called by
\* anyone but owner, fails as unauthorized whatever its other arguments are,
\* changes no state variable and no balance and emits no event.
AccessControl ==
    [][/\ (IsVerify(receipt') /\ receipt'.sender # oracleAddress) =>
            /\ receipt'.err = UnauthorizedOracle
            /\ receipt'.events = <<>>
            /\ UNCHANGED ledger
       /\ (receipt'.op \in OwnerOnly /\ receipt'.sender # owner) =>
            /\ receipt'.err = Unauthorized
            /\ receipt'.events = <<>>
            /\ UNCHANGED ledger]_vars

\* The owner, no longer the oracle, is turned away from verifyEligibility
\* with an argument that the next check would have rejected.
AccessControlWitness ==
    /\ IsVerify(receipt)
    /\ receipt.err = UnauthorizedOracle
    /\ receipt.arg = ZeroAddress
    /\ receipt.sender = owner
    /\ oracleAddress # owner

\* C13: one verifier is designated at any time, initially the owner; after a
\* successful setOracleAddress(n) the verifier is n and verifyEligibility
\* succeeds for no other caller, the previous verifier included; the verifier
\* field of a VerificationRecord never changes once written.
VerifierRotation ==
    /\ oracleAddress = owner
    /\ [](oracleAddress \in Handles)
    /\ [][/\ (receipt'.op = "setOracleAddress" /\ receipt'.err = Ok) =>
               /\ receipt'.sender = owner
               /\ oracleAddress' = receipt'.arg
               /\ verificationHistory' = verificationHistory
          /\ IsVerify(receipt') =>
               /\ receipt'.err = Ok => receipt'.sender = oracleAddress
               /\ receipt'.sender # oracleAddress =>
                    receipt'.err = UnauthorizedOracle
          /\ \A h \in Handles :
               /\ Len(verificationHistory'[h]) >= Len(verificationHistory[h])
               /\ \A i \in 1..Len(verificationHistory[h]) :
                    verificationHistory'[h][i].verifier
                        = verificationHistory[h][i].verifier]_vars

\* After a rotation the owner, who wrote a record as verifier, is rejected,
\* and the new verifier has written one too.
VerifierRotationWitness ==
    /\ IsVerify(receipt)
    /\ receipt.err = UnauthorizedOracle
    /\ receipt.sender = owner
    /\ oracleAddress # owner
    /\ \E h \in Handles :
          /\ Len(verificationHistory[h]) = 2
          /\ verificationHistory[h][1].verifier = owner
          /\ verificationHistory[h][2].verifier = oracleAddress

\* C14: a failing claimScholarship reports the first violated condition in
\* the order: scholarship exists and is active (PoolNotFound), caller
\* isEligible (NotEligible), caller has not claimed (AlreadyClaimed),
\* claimsProcessed < beneficiaryCount (CapacityExhausted), remainingAmount >=
\* claimAmount (InsufficientFunds); when all five hold the call fails, if it
\* does, for none of these reasons.
ClaimPreconditionOrder ==
    [][IsClaim(receipt') =>
         LET caller == students[receipt'.sender]
             pool == scholarships[receipt'.arg]
         IN  IF ~(receipt'.arg < scholarshipCounter /\ pool.active)
                THEN receipt'.err = PoolNotFound
             ELSE IF ~caller.isEligible THEN receipt'.err = NotEligible
             ELSE IF caller.hasClaimedScholarship THEN receipt'.err = AlreadyClaimed
             ELSE IF ~(pool.claimsProcessed < pool.beneficiaryCount)
                THEN receipt'.err = CapacityExhausted
             ELSE IF ~(pool.remainingAmount >= pool.claimAmount)
                THEN receipt'.err = InsufficientFunds
             ELSE receipt'.err \notin {PoolNotFound, NotEligible, AlreadyClaimed,
                                        CapacityExhausted, InsufficientFunds}]_vars

\* A caller who has claimed and is no longer eligible is told NotEligible by
\* a scholarship whose places are taken.
ClaimPreconditionOrderWitness ==
    /\ IsClaim(receipt)
    /\ receipt.err = NotEligible
    /\ students[receipt.sender].hasClaimedScholarship
    /\ scholarships[receipt.arg].claimsProcessed
          = scholarships[receipt.arg].beneficiaryCount

\* C15: a successful claimScholarship sets the caller's hasClaimedScholarship,
\* adds 1 to the scholarship's claimsProcessed, subtracts claimAmount from its
\* remainingAmount and sends exactly claimAmount out of the contract's
\* balance to the caller; no other account and no other scholarship changes.
ClaimEffect ==
    [][(IsClaim(receipt') /\ receipt'.err = Ok) =>
         LET s == receipt'.sender
             p == receipt'.arg
             amount == scholarships[p].claimAmount
         IN  /\ students'[s] = [students[s] EXCEPT !.hasClaimedScholarship = TRUE]
             /\ scholarships'[p] =
                  [scholarships[p] EXCEPT
                      !.claimsProcessed = scholarships[p].claimsProcessed + 1,
                      !.remainingAmount = scholarships[p].remainingAmount - amount]
             /\ balance' = balance - amount
             /\ paid'[s][p] = paid[s][p] + 1
             /\ claimedAmounts'[s] = claimedAmounts[s] + amount
             /\ \A h \in Handles \ {s} :
                  /\ students'[h] = students[h]
                  /\ claimedAmounts'[h] = claimedAmounts[h]
                  /\ paid'[h] = paid[h]
             /\ \A q \in PoolIds \ {p} : scholarships'[q] = scholarships[q]
             /\ UNCHANGED <<studentIdToWallet, verificationHistory,
                            scholarshipCounter, owner, oracleAddress>>]_vars

\* A claim has been paid from a scholarship that keeps a remainder, beside
\* another account that is eligible and has not claimed.
ClaimEffectWitness ==
    /\ IsClaim(receipt)
    /\ receipt.err = Ok
    /\ scholarships[receipt.arg].remainingAmount > 0
    /\ scholarships[receipt.arg].claimsProcessed = 2
    /\ \E h \in Handles \ {receipt.sender} :
          students[h].isEligible /\ ~students[h].hasClaimedScholarship

\* C16: when the transfer inside claimScholarship fails the whole call is
\* rolled back: the caller's claimed flag, the scholarship's claimsProcessed
\* and remainingAmount, claimedAmounts, totalFunds and every other state
\* variable are as before the call, and no event is emitted.
TransferFailureRollsBack ==
    [][(IsClaim(receipt') /\ receipt'.err = TransferFailed) =>
          /\ UNCHANGED ledger
          /\ receipt'.events = <<>>]_vars

\* The transfer to an eligible caller who has not claimed, from a scholarship
\* that has a place and the funds, has failed.
TransferFailureRollsBackWitness ==
    /\ IsClaim(receipt)
    /\ receipt.err = TransferFailed
    /\ students[receipt.sender].isEligible
    /\ ~students[receipt.sender].hasClaimedScholarship
    /\ scholarships[receipt.arg].claimsProcessed = 0
    /\ scholarships[receipt.arg].remainingAmount = scholarships[receipt.arg].totalAmount
    /\ balance >= scholarships[receipt.arg].claimAmount
    /\ claimedAmounts[receipt.sender] = 0

\* C17: every failing call of registerStudent, verifyEligibility,
\* createScholarship, claimScholarship, withdrawUnclaimedFunds or
\* setOracleAddress leaves accounts, id bindings, verification history,
\* scholarships, scholarshipCounter, totalFunds and the contract's balance as
\* they were and emits no event.
NoStateChangeOnFailure ==
    [][(receipt'.op \in Guarded /\ receipt'.err # Ok) =>
          /\ UNCHANGED ledger
          /\ receipt'.events = <<>>]_vars

\* createScholarship has failed on its capacity argument although it came
\* from the owner with funds, in a state with a scholarship, a registered
\* account and a paid claim.
NoStateChangeOnFailureWitness ==
    /\ receipt.op = "createScholarship"
    /\ receipt.err = InvalidCapacity
    /\ scholarshipCounter > 0
    /\ balance > 0
    /\ Registered # {}
    /\ \E h \in Handles : claimedAmounts[h] > 0

\* C18: in every reachable state every scholarship with claimsProcessed <
\* beneficiaryCount has remainingAmount >= claimAmount, so no claimScholarship
\* call ever fails on the check of remainingAmount (InsufficientFunds).
InsufficientFundsUnreachable ==
    /\ [](\A p \in Created :
            scholarships[p].claimsProcessed < scholarships[p].beneficiaryCount =>
                scholarships[p].remainingAmount >= scholarships[p].claimAmount)
    /\ [][IsClaim(receipt') => receipt'.err # InsufficientFunds]_vars

\* A scholarship whose funding leaves a remainder has paid one claim and has a
\* place left, after the owner has withdrawn from the contract.
InsufficientFundsUnreachableWitness ==
    /\ withdrawn > 0
    /\ \E p \in Created :
          /\ scholarships[p].claimsProcessed > 0
          /\ scholarships[p].claimsProcessed < scholarships[p].beneficiaryCount
          /\ scholarships[p].totalAmount % scholarships[p].beneficiaryCount # 0

\* C19 as stated: a successful createScholarship with funding F and capacity
\* N > 0 creates one scholarship with totalAmount = remainingAmount = F,
\* claimAmount = F \div N >= 1, claimsProcessed = 0 and active, and the
\* contract's balance grows by F; an owner's call fails with InvalidCapacity
\* when N = 0 and with ShareTooSmall when N > 0 and F \div N = 0, and a failed
\* call creates nothing and holds no funds.
PoolCreationAsStated ==
    [][receipt'.op = "createScholarship" =>
       \A title \in Titles, N \in Capacities, F \in Values :
         LET sender == receipt'.sender IN
         CreateScholarship(sender, title, N, F) =>
            /\ receipt'.err = Ok =>
                 /\ N > 0
                 /\ scholarshipCounter' = scholarshipCounter + 1
                 /\ scholarships'[scholarshipCounter].totalAmount = F
                 /\ scholarships'[scholarshipCounter].remainingAmount = F
                 /\ scholarships'[scholarshipCounter].claimAmount = F \div N
                 /\ scholarships'[scholarshipCounter].claimAmount >= 1
                 /\ scholarships'[scholarshipCounter].claimsProcessed = 0
                 /\ scholarships'[scholarshipCounter].active
                 /\ balance' = balance + F
            /\ sender = owner =>
                 /\ N = 0 => receipt'.err = InvalidCapacity
                 /\ (N > 0 /\ F \div N = 0) => receipt'.err = ShareTooSmall
            /\ receipt'.err # Ok => UNCHANGED ledger]_vars

\* C19 amended: a successful createScholarship with funding F and capacity N
\* comes from the owner with F > 0, N > 0 and a non-empty title, creates
\* exactly one scholarship, at index scholarshipCounter, with totalAmount =
\* remainingAmount = F, claimAmount = F \div N >= 1, claimsProcessed = 0 and
\* active, and the contract's balance grows by F.  An owner's call fails with
\* NoDeposit when F = 0, else with InvalidCapacity when N = 0, else with
\* EmptyTitle when the title is empty, else with ShareTooSmall when
\* F \div N = 0; a failed call creates no scholarship, leaves
\* scholarshipCounter unchanged and holds no funds.
PoolCreation ==
    [][receipt'.op = "createScholarship" =>
       \A title \in Titles, N \in Capacities, F \in Values :
         LET sender == receipt'.sender IN
         CreateScholarship(sender, title, N, F) =>
            /\ receipt'.err = Ok =>
                 /\ sender = owner /\ N > 0 /\ F > 0 /\ title # ""
                 /\ scholarshipCounter' = scholarshipCounter + 1
                 /\ scholarships'[scholarshipCounter].id = scholarshipCounter
                 /\ scholarships'[scholarshipCounter].totalAmount = F
                 /\ scholarships'[scholarshipCounter].remainingAmount = F
                 /\ scholarships'[scholarshipCounter].claimAmount = F \div N
                 /\ scholarships'[scholarshipCounter].claimAmount >= 1
                 /\ scholarships'[scholarshipCounter].beneficiaryCount = N
                 /\ scholarships'[scholarshipCounter].claimsProcessed = 0
                 /\ scholarships'[scholarshipCounter].active
                 /\ \A q \in PoolIds \ {scholarshipCounter} :
                      scholarships'[q] = scholarships[q]
                 /\ balance' = balance + F
                 /\ totalFunds' = totalFunds + F
                 /\ UNCHANGED <<students, studentIdToWallet,
                                verificationHistory, claimedAmounts>>
            /\ sender = owner =>
                 receipt'.err =
                    IF F = 0 THEN NoDeposit
                    ELSE IF N = 0 THEN InvalidCapacity
                    ELSE IF title = "" THEN EmptyTitle
                    ELSE IF F \div N = 0 THEN ShareTooSmall
                    ELSE Ok
            /\ receipt'.err # Ok => UNCHANGED ledger]_vars

\* A second scholarship was refused because its share would be 0, and the
\* first one, whose funding leaves a remainder, is all the contract holds.
PoolCreationWitness ==
    /\ receipt.op = "createScholarship"
    /\ receipt.err = ShareTooSmall
    /\ scholarshipCounter = 1
    /\ scholarships[0].totalAmount = 3
    /\ scholarships[0].claimAmount = 1
    /\ balance = 3

\* C20 as stated: a successful registerStudent(id, hash) from handle h makes
\* students[h] an account with studentId = id, isEligible = false,
\* hasClaimedScholarship = false and verificationTimestamp = 0; a call with
\* id = 0 or an empty hash fails with InvalidInput and creates nothing.
RegistrationAsStated ==
    [][IsRegister(receipt') =>
       \A hash \in Hashes :
         LET h == receipt'.sender
             id == receipt'.arg
         IN  RegisterStudent(h, id, hash) =>
               /\ receipt'.err = Ok =>
                    /\ students'[h].studentId = id
                    /\ students'[h].isEligible = FALSE
                    /\ students'[h].hasClaimedScholarship = FALSE
                    /\ students'[h].verificationTimestamp = 0
               /\ (id = 0 \/ hash = "") =>
                    /\ receipt'.err \in InvalidInputKind
                    /\ UNCHANGED ledger]_vars

\* C20 amended: a successful registerStudent(id, hash) from handle h has
\* id > 0 and a non-empty hash and makes students[h] an account with
\* studentId = id, walletAddress = h, applicationHash = hash, isEligible =
\* false, hasClaimedScholarship = false and verificationTimestamp = 0, bound
\* to h in studentIdToWallet; a call with id = 0 fails with InvalidInput; a
\* call with an empty hash always fails, with InvalidInput when id is not 0,
\* id is not registered and h is not bound, and with the error of the
\* earlier check otherwise; a failed call creates nothing.
Registration ==
    [][IsRegister(receipt') =>
       \A hash \in Hashes :
         LET h == receipt'.sender
             id == receipt'.arg
         IN  RegisterStudent(h, id, hash) =>
               /\ receipt'.err = Ok =>
                    /\ id > 0 /\ hash # ""
                    /\ students'[h] =
                         [studentId |-> id, walletAddress |-> h,
                          applicationHash |-> hash, isEligible |-> FALSE,
                          hasClaimedScholarship |-> FALSE,
                          verificationTimestamp |-> 0]
                    /\ studentIdToWallet'[id] = h
                    /\ \A g \in Handles \ {h} : students'[g] = students[g]
                    /\ \A j \in Ids \ {id} :
                         studentIdToWallet'[j] = studentIdToWallet[j]
               /\ id = 0 => receipt'.err = InvalidInput
               /\ hash = "" =>
                    receipt'.err =
                       IF id = 0 THEN InvalidInput
                       ELSE IF studentIdToWallet[id] # ZeroAddress
                            THEN DuplicateIdentity
                       ELSE IF students[h].studentId # 0 THEN DuplicateHandle
                       ELSE EmptyHash
               /\ receipt'.err # Ok => UNCHANGED ledger]_vars

\* An unbound handle with a fresh id was refused for its empty hash, beside
\* an account that is registered.
RegistrationWitness ==
    /\ IsRegister(receipt)
    /\ receipt.err = EmptyHash
    /\ students[receipt.sender] = NoStudent
    /\ studentIdToWallet[receipt.arg] = ZeroAddress
    /\ Registered # {}

\* C21: the oracle's verifyEligibility(handle, id, ...) fails with
\* IdentityMismatch whenever id differs from the id registered for handle, and
\* fails for every handle that has no registered account, whatever id is
\* supplied (0 included); in both cases isEligible, verificationTimestamp and
\* verificationHistory are unchanged.
VerificationTargetCheck ==
    [][(IsVerify(receipt') /\ receipt'.sender = oracleAddress
            /\ receipt'.arg # ZeroAddress) =>
       \A id \in Ids, isEligible \in BOOLEAN, reason \in Reasons :
         LET h == receipt'.arg IN
         VerifyEligibility(receipt'.sender, h, id, isEligible, reason) =>
            /\ (h \in Registered /\ students[h].studentId # id) =>
                 /\ receipt'.err = IdentityMismatch
                 /\ UNCHANGED <<students, verificationHistory>>
            /\ h \notin Registered =>
                 /\ receipt'.err # Ok
                 /\ UNCHANGED <<students, verificationHistory>>]_vars

\* C22: claimScholarship acts on the caller's own account: a handle's
\* hasClaimedScholarship changes only in a call made by that handle and
\* becomes true only in that handle's own successful claim, and every share
\* that is paid, and the claimedAmounts entry that counts it, is the
\* caller's.
ClaimsSelfOnly ==
    [][\A h \in Handles :
         /\ students'[h].hasClaimedScholarship # students[h].hasClaimedScholarship
               => receipt'.sender = h
         /\ (students'[h].hasClaimedScholarship
                /\ ~students[h].hasClaimedScholarship) =>
               IsClaim(receipt') /\ receipt'.err = Ok
         /\ (paid'[h] # paid[h] \/ claimedAmounts'[h] # claimedAmounts[h]) =>
               /\ IsClaim(receipt') /\ receipt'.err = Ok /\ receipt'.sender = h
               /\ paid'[h] = [paid[h] EXCEPT ![receipt'.arg] = @ + 1]
               /\ claimedAmounts'[h] = claimedAmounts[h]
                                         + scholarships[receipt'.arg].claimAmount]_vars

\* A claim has been paid to its caller beside another eligible account, which
\* is neither paid nor marked.
ClaimsSelfOnlyWitness ==
    /\ IsClaim(receipt)
    /\ receipt.err = Ok
    /\ paid[receipt.sender][receipt.arg] = 1
    /\ \E h \in Handles \ {receipt.sender} :
          /\ students[h].isEligible
          /\ ~students[h].hasClaimedScholarship
          /\ claimedAmounts[h] = 0
          /\ paid[h][receipt.arg] = 0

\* Sum of remainingAmount over the scholarships of S.
RECURSIVE SumRemaining(_)
SumRemaining(S) ==
    IF S = {} THEN 0
    ELSE LET p == CHOOSE x \in S : TRUE
         IN scholarships[p].remainingAmount + SumRemaining(S \ {p})

\* C23: in every reachable state the funds the contract holds are at least
\* the sum of remainingAmount over all created scholarships.
NeverUnderfunded ==
    balance >= SumRemaining(Created)

\* C24 as stated: the owner's withdrawUnclaimedFunds(amount) fails with
\* InsufficientBalance exactly when amount exceeds the contract's balance and
\* otherwise sends exactly amount to the owner; a successful withdrawal
\* changes no scholarship's beneficiaryCount or claimsProcessed and no
\* account's isEligible or hasClaimedScholarship.
ResidualWithdrawalAsStated ==
    [][(IsWithdraw(receipt') /\ receipt'.sender = owner) =>
         LET amount == receipt'.arg IN
         /\ receipt'.err = InsufficientBalance <=> amount > balance
         /\ ~(amount > balance) =>
              /\ receipt'.err = Ok
              /\ balance' = balance - amount
              /\ withdrawn' = withdrawn + amount
         /\ receipt'.err = Ok => UNCHANGED <<students, scholarships>>]_vars

\* C24 amended: the owner's withdrawUnclaimedFunds(amount) fails with
\* InsufficientBalance exactly when amount exceeds the contract's balance;
\* otherwise it sends exactly amount to the owner when the owner's address
\* accepts the transfer and fails with WithdrawalFailed, changing nothing,
\* when it refuses.  A successful withdrawal changes no scholarship and no
\* account, so no beneficiaryCount, claimsProcessed, isEligible or
\* hasClaimedScholarship.
ResidualWithdrawal ==
    [][(IsWithdraw(receipt') /\ receipt'.sender = owner) =>
       \A accepts \in BOOLEAN :
         LET amount == receipt'.arg IN
         WithdrawUnclaimedFunds(owner, amount, accepts) =>
            /\ receipt'.err = InsufficientBalance <=> amount > balance
            /\ ~(amount > balance) =>
                 receipt'.err = IF accepts THEN Ok ELSE WithdrawalFailed
            /\ receipt'.err = Ok =>
                 /\ balance' = balance - amount
                 /\ withdrawn' = withdrawn + amount
                 /\ UNCHANGED <<students, scholarships, scholarshipCounter,
                                totalFunds, studentIdToWallet,
                                verificationHistory, claimedAmounts, paid>>
            /\ receipt'.err # Ok => UNCHANGED ledger]_vars

\* The owner has withdrawn a positive amount from a contract that holds a
\* scholarship with a paid claim and a place left.
ResidualWithdrawalWitness ==
    /\ IsWithdraw(receipt)
    /\ receipt.err = Ok
    /\ receipt.arg > 0
    /\ \E p \in Created :
          /\ scholarships[p].claimsProcessed > 0
          /\ scholarships[p].claimsProcessed < scholarships[p].beneficiaryCount
    /\ \E h \in Handles : students[h].hasClaimedScholarship

\* C25: while the transfer of a claim is in flight the caller's
\* hasClaimedScholarship already reads true and the scholarship's
\* claimsProcessed and remainingAmount are already updated, and a
\* claimScholarship call made by the recipient during the transfer never
\* succeeds: it fails with AlreadyClaimed when the scholarship exists and the
\* recipient is eligible.
ReentrancyOrdering ==
    /\ [](stack # <<>> =>
            LET top == stack[Len(stack)]
                before == top.saved[7][top.id]
            IN  /\ students[top.sender].hasClaimedScholarship
                /\ scholarships[top.id].claimsProcessed
                      = before.claimsProcessed + 1
                /\ scholarships[top.id].remainingAmount
                      = before.remainingAmount - before.claimAmount)
    /\ [][(stack # <<>> /\ stack' = stack /\ IsClaim(receipt')) =>
            /\ receipt'.err # Ok
            /\ (scholarshipExists(receipt'.arg)
                  /\ students[receipt'.sender].isEligible) =>
                    receipt'.err = AlreadyClaimed]_vars

\* C26: between the start of a claimScholarship call and the return of its
\* transfer no other call takes effect on the caller's account or on the
\* scholarship claimed, calls made by the recipient during the transfer
\* included.
ClaimCriticalSection ==
    [][(stack # <<>> /\ stack' = stack) =>
         LET top == stack[Len(stack)]
         IN  /\ students'[top.sender] = students[top.sender]
             /\ verificationHistory'[top.sender] = verificationHistory[top.sender]
             /\ claimedAmounts'[top.sender] = claimedAmounts[top.sender]
             /\ scholarships'[top.id] = scholarships[top.id]]_vars

\* C27: scholarship ids are 0, 1, 2, ... in creation order and never reused,
\* scholarshipCounter counts the scholarships created, a created scholarship
\* is never deleted, its id, totalAmount, claimAmount, beneficiaryCount and
\* creator never change, and its active flag does not become false, by a
\* withdrawal or otherwise.
PoolsPermanent ==
    /\ [](/\ \A p \in Created :
               scholarships[p].id = p /\ scholarships[p].active
          /\ \A p \in PoolIds \ Created : scholarships[p] = NoScholarship)
    /\ [][/\ scholarshipCounter' =
               IF receipt'.op = "createScholarship" /\ receipt'.err = Ok
               THEN scholarshipCounter + 1 ELSE scholarshipCounter
          /\ (receipt'.op = "createScholarship" /\ receipt'.err = Ok) =>
               receipt'.arg = scholarshipCounter
          /\ \A p \in Created :
               /\ scholarships'[p].id = scholarships[p].id
               /\ scholarships'[p].totalAmount = scholarships[p].totalAmount
               /\ scholarships'[p].claimAmount = scholarships[p].claimAmount
               /\ scholarships'[p].beneficiaryCount
                     = scholarships[p].beneficiaryCount
               /\ scholarships'[p].creator = scholarships[p].creator
               /\ scholarships[p].active => scholarships'[p].active]_vars

\* Two scholarships exist, the first has paid a claim, and the owner has just
\* withdrawn a positive amount: both are still there and active.
PoolsPermanentWitness ==
    /\ scholarshipCounter = 2
    /\ scholarships[0].claimsProcessed > 0
    /\ IsWithdraw(receipt)
    /\ receipt.err = Ok
    /\ receipt.arg > 0
    /\ scholarships[0].active /\ scholarships[1].active

\* The event each function emits when it succeeds.
EventOf(op) ==
    CASE op = "registerStudent" -> "StudentRegistered"
      [] op = "verifyEligibility" -> "EligibilityVerified"
      [] op = "createScholarship" -> "ScholarshipCreated"
      [] op = "claimScholarship" -> "ScholarshipClaimed"
      [] op = "withdrawUnclaimedFunds" -> "FundsWithdrawn"
      [] op = "setOracleAddress" -> "OracleAddressUpdated"
      [] op = "receive" -> "FundsDeposited"

\* C28: every successful call appends exactly one event, of its own kind, to
\* the log; a failed call appends nothing; the entries already in the log
\* are never modified or removed.
AuditLog ==
    [][/\ receipt'.err = Ok => log' = Append(log, EventOf(receipt'.op))
       /\ receipt'.err # Ok => log' = log
       /\ Len(log') >= Len(log)
       /\ SubSeq(log', 1, Len(log)) = log]_vars

\* The log holds an account's way from registration to its paid claim, and
\* the call after it failed.
AuditLogWitness ==
    /\ log = <<"StudentRegistered", "EligibilityVerified",
               "ScholarshipCreated", "ScholarshipClaimed">>
    /\ IsClaim(receipt)
    /\ receipt.err = AlreadyClaimed

\* C29: every successful verifyEligibility call appends exactly one
\* VerificationRecord to the history of its target, also when the status
\* recorded equals the current one; the record carries the caller as
\* verifier; no other step changes a history, so earlier records are never
\* modified, reordered or removed.
HistoryAppendOnly ==
    [][\A h \in Handles :
         LET old == verificationHistory[h]
             new == verificationHistory'[h]
         IN  IF IsVerify(receipt') /\ receipt'.err = Ok /\ receipt'.arg = h
             THEN /\ Len(new) = Len(old) + 1
                  /\ SubSeq(new, 1, Len(old)) = old
                  /\ new[Len(new)].verifier = receipt'.sender
                  /\ new[Len(new)].student = h
                  /\ new[Len(new)].isEligible = students'[h].isEligible
             ELSE new = old]_vars

\* The same status has been recorded twice for an account, by the same
\* verifier, and the history has both records.
HistoryAppendOnlyWitness ==
    /\ IsVerify(receipt)
    /\ receipt.err = Ok
    /\ Len(verificationHistory[receipt.arg]) = 2
    /\ verificationHistory[receipt.arg][1] = verificationHistory[receipt.arg][2]

IsFund(r) == r.op = "fundStudent"
IsGrant(r) == r.op = "ScholarshipManager.claimScholarship"

ClaimAvailability ==
    \A h \in Handles, p \in PoolIds :
        ( /\ scholarshipExists(p)
          /\ studentIsEligible(h)
          /\ ~students[h].hasClaimedScholarship
          /\ scholarships[p].claimsProcessed < scholarships[p].beneficiaryCount )
        => claimError(h, p, TRUE) = Ok

\* C32: in every reachable state every address that is marked eligible, is
\* marked as having claimed or has been paid has a registered account: its
\* studentId is set and studentIdToWallet maps that id back to the address.
OnlyRegisteredPaidOrEligible ==
    \A h \in Handles :
        ( \/ students[h].isEligible
          \/ students[h].hasClaimedScholarship
          \/ claimedAmounts[h] > 0 )
        => /\ students[h].studentId # 0
           /\ studentIdToWallet[students[h].studentId] = h

IsReceive(r) == r.op = "receive"

\* totalFunds less what the scholarships still hold: the plain deposits.
Deposited == totalFunds - SumRemaining(Created)

\* C33: between transactions totalFunds is the sum of remainingAmount over
\* the scholarships plus the sum of the values received through receive():
\* the difference is 0 at first, grows by the value of every receive() and
\* is changed by nothing else; receive() changes only totalFunds and the
\* balance; totalFunds equals the balance while no withdrawal has succeeded.
GlobalFundCounter ==
    /\ Deposited = 0
    /\ [][/\ Deposited' = Deposited
                + (IF IsReceive(receipt') THEN receipt'.arg ELSE 0)
          /\ IsReceive(receipt') =>
               /\ totalFunds' = totalFunds + receipt'.arg
               /\ balance' = balance + receipt'.arg
               /\ UNCHANGED <<owner, oracleAddress, scholarshipCounter,
                              students, studentIdToWallet, scholarships,
                              verificationHistory, claimedAmounts>>]_vars
    /\ [](withdrawn = 0 => totalFunds = balance)

\* A deposit of 1 has just been received after a share was paid from a
\* scholarship that still holds funds, and nothing has been withdrawn.
GlobalFundCounterWitness ==
    /\ IsReceive(receipt)
    /\ receipt.arg = 1
    /\ withdrawn = 0
    /\ Deposited > 0
    /\ \E p \in Created : /\ scholarships[p].claimsProcessed > 0
                          /\ scholarships[p].remainingAmount > 0

\* C34: the subtraction totalFunds -= claimAmount of claimScholarship never
\* underflows: no claim ends in an arithmetic panic, and while the transfer
\* of a claim is in flight, whatever the recipient has called meanwhile,
\* totalFunds is at least the claimAmount that will be subtracted.
NoClaimUnderflow ==
    /\ receipt.err # ArithmeticPanic
    /\ \A h \in Handles, p \in PoolIds :
          claimError(h, p, TRUE) # ArithmeticPanic
    /\ \A i \in 1..Len(stack) :
          totalFunds >= scholarships[stack[i].id].claimAmount

\* While the transfer of its first share is in flight the recipient has
\* claimed again, and that claim has been paid.
NoClaimUnderflowWitness ==
    /\ stack # <<>>
    /\ IsClaim(receipt)
    /\ receipt.err = Ok
    /\ receipt.sender = stack[Len(stack)].sender
    /\ totalFunds < scholarships[stack[Len(stack)].id].totalAmount

RECURSIVE SumClaimed(_)
SumClaimed(S) ==
    IF S = {} THEN 0
    ELSE LET h == CHOOSE x \in S : TRUE
         IN claimedAmounts[h] + SumClaimed(S \ {h})

RECURSIVE SumPaidOut(_)
SumPaidOut(S) ==
    IF S = {} THEN 0
    ELSE LET p == CHOOSE x \in S : TRUE
         IN scholarships[p].claimsProcessed * scholarships[p].claimAmount
              + SumPaidOut(S \ {p})

RECURSIVE SumProcessed(_)
SumProcessed(S) ==
    IF S = {} THEN 0
    ELSE LET p == CHOOSE x \in S : TRUE
         IN scholarships[p].claimsProcessed + SumProcessed(S \ {p})

\* C35: in every reachable state the sum of claimedAmounts over all
\* addresses equals the sum over the scholarships of claimsProcessed *
\* claimAmount, the number of addresses with hasClaimedScholarship set
\* equals the sum of claimsProcessed, and claimedAmounts[h] > 0 exactly when
\* hasClaimedScholarship is set for h.
PayoutLedger ==
    /\ SumClaimed(Handles) = SumPaidOut(Created)
    /\ Cardinality({h \in Handles : students[h].hasClaimedScholarship})
          = SumProcessed(Created)
    /\ \A h \in Handles :
          claimedAmounts[h] > 0 <=> students[h].hasClaimedScholarship

\* C36: a successful verifyEligibility call changes only the target's
\* isEligible, verificationTimestamp and verificationHistory: every other
\* field of the target, every other account and history, claimedAmounts, the
\* scholarships, totalFunds and the balance are unchanged, and a target that
\* had claimed still cannot claim from any scholarship afterwards.
VerifyTouchesOnlyEligibility ==
    [][(IsVerify(receipt') /\ receipt'.err = Ok) =>
         LET t == receipt'.arg IN
         /\ UNCHANGED <<owner, oracleAddress, scholarshipCounter, totalFunds,
                        studentIdToWallet, scholarships, claimedAmounts,
                        balance, paid, withdrawn>>
         /\ \A h \in Handles \ {t} :
               /\ students'[h] = students[h]
               /\ verificationHistory'[h] = verificationHistory[h]
         /\ students'[t] =
               [students[t] EXCEPT
                  !.isEligible = students'[t].isEligible,
                  !.verificationTimestamp = students'[t].verificationTimestamp]
         /\ \A h \in Handles, p \in PoolIds :
               (h = t /\ students[h].hasClaimedScholarship) =>
                  claimError(h, p, TRUE)' # Ok]_vars

\* Eligibility has just been revoked for an account that has been paid: the
\* payment and the claim flag are still there.
VerifyTouchesOnlyEligibilityWitness ==
    /\ IsVerify(receipt)
    /\ receipt.err = Ok
    /\ ~students[receipt.arg].isEligible
    /\ students[receipt.arg].hasClaimedScholarship
    /\ claimedAmounts[receipt.arg] > 0
    /\ \E p \in Created : paid[receipt.arg][p] = 1

\* The names that the page shows for a role.
NamesShown(role) ==
    LET page == Rendered(role) IN
    {page.applicantTable[i].name[1] :
        i \in {j \in DOMAIN page.applicantTable :
                  page.applicantTable[j].name # <<>>}}
    \cup ({page.beneficiaryCards[i].name : i \in DOMAIN page.beneficiaryCards}
             \ {Masked})

ListedIds(role) ==
    {Rendered(role).applicantTable[i].id : i \in DOMAIN Rendered(role).applicantTable}

\* C37: after every sequence of role selections, names of applicants and
\* beneficiaries are shown only while activeRole is committee or admin;
\* while it is public only the applicants with status Selected are listed and
\* every beneficiary name is masked; the audit dashboard is shown only
\* while it is admin; the committee is shown every applicant.
RoleGating ==
    LET page == Rendered(activeRole) IN
    /\ activeRole \in Roles
    /\ NamesShown(activeRole) # {} => activeRole \in {"committee", "admin"}
    /\ activeRole = "public" =>
          /\ \A i \in DOMAIN page.applicantTable :
                /\ page.applicantTable[i].status = "Selected"
                /\ page.applicantTable[i].name = <<>>
          /\ ListedIds(activeRole) =
                {applicants[i].id : i \in {j \in DOMAIN applicants :
                                              applicants[j].status = "Selected"}}
          /\ \A i \in DOMAIN page.beneficiaryCards :
                page.beneficiaryCards[i].name = Masked
    /\ page.auditDashboard # <<>> => activeRole = "admin"
    /\ activeRole = "committee" =>
          /\ Len(page.applicantTable) = Len(applicants)
          /\ \A i \in DOMAIN applicants :
                /\ page.applicantTable[i].id = applicants[i].id
                /\ page.applicantTable[i].name = <<applicants[i].name>>

\* The public role has been selected right after the admin role, and the
\* committee role before that: the page shows no name any more.
RoleGatingWitness ==
    /\ Len(selections) = 3
    /\ selections = <<"committee", "admin", "public">>
    /\ activeRole = "public"
    /\ NamesShown("admin") # {}
    /\ NamesShown(activeRole) = {}

Writers == {"verifySponsor", "verifyStudent", "fundStudent", "claimScholarship"}

\* The inputs a handler requires besides the ones of ensureReady().
RequiredInputs(handler) ==
    CASE handler = "verifySponsor" -> {"sponsorAddress"}
      [] handler = "verifyStudent" -> {"studentAddress", "sponsorAddress"}
      [] handler = "fundStudent" -> {"studentAddress"}
      [] OTHER -> {}

\* Whether a message names something that is missing in d.
NamesMissing(message, d) ==
    CASE message = "MetaMask not found." -> ~d.walletClient
      [] message = "Contract address is required." -> d.contractAddress = ""
      [] message = "Connect wallet first." -> d.walletAddress = ""
      [] message = "Sponsor address is required." -> d.sponsorAddress = ""
      [] message = "Student address is required." -> d.studentAddress = ""
      [] message = "Student and sponsor addresses are required." ->
            d.studentAddress = "" \/ d.sponsorAddress = ""
      [] OTHER -> FALSE

\* C38: none of the four handlers issues a write unless the wallet client
\* exists, the contract address is set and a wallet is connected, and the
\* address inputs it requires are set; a refused handler adds to the head of
\* the log only entries that name something actually missing, and at least
\* one; a write that has been sent adds exactly one entry at the head.
DemoGating ==
    [][demo' # demo =>
         LET handler == demo'.last.handler
             added == Len(demo'.logs) - Len(demo.logs)
         IN
         /\ Len(demo'.pending) > Len(demo.pending) =>
               /\ demo.walletClient
               /\ demo.contractAddress # ""
               /\ demo.walletAddress # ""
               /\ \A field \in RequiredInputs(handler) : demo[field] # ""
         /\ (handler \in Writers /\ demo'.last.outcome = "refused") =>
               /\ added >= 1
               /\ SubSeq(demo'.logs, added + 1, Len(demo'.logs)) = demo.logs
               /\ \A i \in 1..added :
                     NamesMissing(demo'.logs[i].message, demo)
         /\ (handler \in Writers /\ demo'.last.outcome = "sent") =>
               /\ added = 1
               /\ Tail(demo'.logs) = demo.logs
               /\ Head(demo'.logs).message = SentMessage(handler)]_vars
====
